---- MODULE Spec2Model ----
(***************************************************************************)
(* A model of the newsletter extraction engine of cli/merge_md_to_json.py: *)
(* the date range resolver, the file ordering, the section splitter, the   *)
(* two item parsers, the item normalizer and the aggregator.               *)
(*                                                                         *)
(* Text is modelled as Python handles it: a string is a sequence of        *)
(* one-character strings, a text is the sequence of its lines (the result  *)
(* of split('\n')), and every regular expression of the source is an       *)
(* operator that scans the characters the way the expression matches.      *)
(***************************************************************************)
EXTENDS Integers, Sequences, FiniteSets, TLC

VARIABLES
    folder_name,    \* os.path.basename(folder_path): the batch identifier
    md_files,       \* the .md file names of the folder, in os.listdir order
    file_contents,  \* the content of each file of the folder
    current_year,   \* datetime.now().year
    pc,             \* the position of the program
    start_date,     \* sort_files_by_date: start_date
    end_date,       \* sort_files_by_date: end_date
    year,           \* sort_files_by_date: year
    file_dates,     \* sort_files_by_date: the (date, filename) pairs so far
    sorted_files,   \* what sort_files_by_date returns
    exception,      \* the call that raised an uncaught exception, or "none"
    parsed_files,   \* merge_files_to_json: parsed_files
    json_data,      \* merge_files_to_json: json_data
    section_index,  \* merge_files_to_json: the place of section in target_sections
    file_index,     \* merge_files_to_json: the place of file_data in parsed_files
    run,            \* how many times the program was started on the folder
    first_output,   \* the JSON the first run wrote
    parse_name,     \* parse_section_items: section_name
    parse_lines,    \* parse_section_items: section_content, as its lines
    parse_state,    \* the variables of the parser the call runs
    parse_result,   \* what the call returns
    tasks,          \* for each file, how far its parse has come and what it found
    last_parser,    \* the parser variables the latest parser step left behind
    parallel_output, \* the JSON merged from the finished tasks
    retry_function, \* 
    retry_text,     \* 
    retry_attempt,  \* 
    retry_calls,    \* 
    retry_failures, \* 
    retry_waits,    \* 
    retry_returned, \* 
    split_lines,    \* 
    split_state,    \* 
    split_index,    \* 
    classify_text,  \* the text handed to detect_subcategory
    classify_section,\* the section name handed to it
    classify_result, \* what it returned
    parse_iterations\* the iterations of the loop of the call so far

\* The variables of sort_files_by_date.
orderVars == <<start_date, end_date, year, file_dates>>

\* The folder and the clock: what the program reads.
inputVars == <<folder_name, md_files, file_contents, current_year>>

\* The variables of merge_files_to_json after the sort.
mergeVars == <<parsed_files, json_data, section_index, file_index>>

\* The runs of the program.
runVars == <<run, first_output>>

\* The variables of one call of parse_section_items.
parseVars == <<parse_name, parse_lines, parse_state, parse_result>>

\* The variables of documents parsed side by side.
parallelVars == <<tasks, last_parser, parallel_output>>

\* The variables of a text-transform call.
retryVars == <<retry_function, retry_text, retry_attempt, retry_calls, retry_failures, retry_waits, retry_returned>>

\* The variables of one call of parse_markdown_file.
splitVars == <<split_lines, split_state, split_index>>

\* The variables of one call of detect_subcategory.
classifyVars == <<classify_text, classify_section, classify_result>>

\* The iterations of the parser's loop that have run.
loopVars == <<parse_iterations>>

vars == <<inputVars, pc, orderVars, sorted_files, exception, mergeVars, runVars,
         parseVars,
         parallelVars,
         retryVars,
         splitVars,
         classifyVars,
         loopVars>>

-----------------------------------------------------------------------------
(* Python values *)

\* Python's None. No string of the model equals it: every string is a
\* sequence of one-character strings.
None == <<"None">>

\* bool(x) for a string or None: None and '' are falsy.
Truthy(x) == x # None /\ x # <<>>

-----------------------------------------------------------------------------
(* Characters and strings *)

\* A character beyond ASCII is named by its code point: "U+" and the
\* code point in hexadecimal, four digits at least. So is the grave accent,
\* "U+0060", whose place in Ascii holds a space.
Ascii ==
    " !\"#$%&'()*+,-./0123456789:;<=>?@ABCDEFGHIJKLMNOPQRSTUVWXYZ[\\]^_ abcdefghijklmnopqrstuvwxyz{|}~"

RECURSIVE Hex(_, _)
Hex(n, width) ==
    IF n = 0 /\ width <= 0 THEN ""
    ELSE Hex(n \div 16, width - 1)
             \o SubSeq("0123456789ABCDEF", (n % 16) + 1, (n % 16) + 1)

\* The character of code point n, from the space on.
CodePoint(n) ==
    IF n \in 32..126 /\ n # 96 THEN SubSeq(Ascii, n - 31, n - 31)
    ELSE "U+" \o Hex(n, 4)

\* The tables of the Unicode character database below are strings of code
\* points, each in five hexadecimal digits and followed by one more character.
RECURSIVE HexVal(_)
HexVal(h) ==
    IF h = "" THEN 0
    ELSE 16 * HexVal(SubSeq(h, 1, Len(h) - 1))
         + (CHOOSE k \in 0..15 :
                SubSeq("0123456789ABCDEF", k + 1, k + 1) = SubSeq(h, Len(h), Len(h)))

\* The code points of a table, in its order.
Codes(table) ==
    [k \in 1..(Len(table) \div 6) |-> HexVal(SubSeq(table, 6 * k - 5, 6 * k - 1))]

\* The characters of the ranges first-last of a table.
InRanges(codes) ==
    UNION { {CodePoint(n) : n \in codes[2 * k - 1]..codes[2 * k]} :
             k \in 1..(Len(codes) \div 2) }

\* The function of a set of pairs <<argument, value>>.
FunctionOf(pairs) ==
    [c \in {p[1] : p \in pairs} |-> (CHOOSE p \in pairs : p[1] = c)[2]]

\* Each decimal digit with its value, from the code points of the digits zero:
\* the digits one to nine of each follow it in order.
DigitsFrom(zeros) ==
    FunctionOf(UNION { {<<CodePoint(zeros[j] + k), k>> : k \in 0..9} :
                        j \in DOMAIN zeros })

\* int(c) for each decimal digit (Unicode category Nd).
DigitValue ==
    DigitsFrom(Codes(
        "00030 00660 006F0 007C0 00966 009E6 00A66 00AE6 00B66 00BE6 00C66 00CE6 00D66 00DE6 00E50 00ED0 00F20 01040 01090 017E0 01810 01946 019D0 01A80 01A90 01B50 01BB0 01C40 01C50 0A620 0A8D0 0A900 0A9D0 0A9F0 0AA50 0ABF0 0FF10 104A0 10D30 11066 110F0 11136 111D0 112F0 11450 114D0 11650 116C0 11730 118E0 11950 11C50 11D50 11DA0 16A60 16AC0 16B50 1D7CE 1D7D8 1D7E2 1D7EC 1D7F6 1E140 1E2F0 1E950 1FBF0 "))

\* The characters \d matches in a str pattern: every Unicode decimal digit.
Digits == DOMAIN DigitValue

\* int(c) for one decimal digit.
DigitVal(c) == DigitValue[c]

\* int(s) for a string of decimal digits.
RECURSIVE ParseInt(_)
ParseInt(s) ==
    IF s = <<>> THEN 0
    ELSE 10 * ParseInt(SubSeq(s, 1, Len(s) - 1)) + DigitVal(s[Len(s)])

\* s[a..b], empty when the range is.
Slice(s, a, b) == IF a > b THEN <<>> ELSE SubSeq(s, a, b)

\* Whether string p occurs in s at position pos.
MatchAt(s, pos, p) ==
    /\ pos >= 1
    /\ pos + Len(p) - 1 <= Len(s)
    /\ \A j \in 1..Len(p) : s[pos + j - 1] = p[j]

\* How many characters a greedy \d{1,2} takes at pos: 2, 1, or 0 for no match.
\* When two digits are there, giving one back can never help the expressions
\* below: the next thing each of them needs is a separator, not a digit.
DigitRun(s, pos) ==
    IF pos <= Len(s) /\ s[pos] \in Digits
    THEN IF pos + 1 <= Len(s) /\ s[pos + 1] \in Digits THEN 2 ELSE 1
    ELSE 0

\* The group (\d{1,2}) in a pattern; every other element of a pattern is a
\* character that matches itself.
DigitGroup == "(\\d{1,2})"

\* re.match of a pattern from pos on: the groups matched so far and those of
\* the rest of the pattern, or None. Nothing is asked of the text after the
\* pattern's end.
RECURSIVE MatchFrom(_, _, _, _)
MatchFrom(s, pos, pattern, groups) ==
    IF pattern = <<>> THEN groups
    ELSE IF Head(pattern) = DigitGroup
    THEN LET n == DigitRun(s, pos)
         IN  IF n = 0 THEN None
             ELSE MatchFrom(s, pos + n, Tail(pattern),
                            Append(groups, Slice(s, pos, pos + n - 1)))
    ELSE IF MatchAt(s, pos, <<Head(pattern)>>)
    THEN MatchFrom(s, pos + 1, Tail(pattern), groups)
    ELSE None

-----------------------------------------------------------------------------
(* datetime.date *)

MAXYEAR == 9999

IsLeap(y) == (y % 4 = 0) /\ ((y % 100 # 0) \/ (y % 400 = 0))

DaysInMonth(y, m) ==
    IF m = 2 THEN (IF IsLeap(y) THEN 29 ELSE 28)
    ELSE IF m \in {4, 6, 9, 11} THEN 30
    ELSE 31

\* Whether date(y, m, d) constructs; otherwise it raises ValueError.
ValidDate(y, m, d) ==
    /\ y >= 1 /\ y <= MAXYEAR
    /\ m >= 1 /\ m <= 12
    /\ d >= 1 /\ d <= DaysInMonth(y, m)

\* A date is the tuple of its year, month and day.
Date(y, m, d) == <<y, m, d>>

YearOf(d) == d[1]

MonthOf(d) == d[2]

DayOf(d) == d[3]

\* None where a date is expected.
NoDate == <<>>

\* date.max
DateMax == Date(MAXYEAR, 12, 31)

\* a < b on dates.
DateLess(a, b) ==
    \/ YearOf(a) < YearOf(b)
    \/ YearOf(a) = YearOf(b) /\ MonthOf(a) < MonthOf(b)
    \/ YearOf(a) = YearOf(b) /\ MonthOf(a) = MonthOf(b) /\ DayOf(a) < DayOf(b)

-----------------------------------------------------------------------------
(* extract_date_from_filename *)

\* re.match(r'(\d{1,2})-(\d{1,2})\.md', filename): the month and day digit
\* strings, or None. The match is anchored at the start only.
FilenameMatch(filename) ==
    MatchFrom(filename, 1, <<DigitGroup, "-", DigitGroup, ".", "m", "d">>, <<>>)

\* The date of a file name in year y, or None (no match, or ValueError caught).
extract_date_from_filename(filename, y) ==
    LET match == FilenameMatch(filename)
    IN  IF match = None THEN NoDate
        ELSE LET month == ParseInt(match[1])
                 day == ParseInt(match[2])
             IN  IF ValidDate(y, month, day) THEN Date(y, month, day)
                 ELSE NoDate

-----------------------------------------------------------------------------
(* get_date_range_from_folder *)

\* re.match(r'(\d{1,2})\.(\d{1,2})-(\d{1,2})\.(\d{1,2})', folder_name): the
\* four digit strings, or None. Anchored at the start only: text after the
\* fourth group is ignored.
RangeMatch(name) ==
    MatchFrom(name, 1,
              <<DigitGroup, ".", DigitGroup, "-", DigitGroup, ".", DigitGroup>>,
              <<>>)

\* The four numbers of a matching name.
RangeNumbers(name) ==
    LET m == RangeMatch(name)
    IN  [start_month |-> ParseInt(m[1]), start_day |-> ParseInt(m[2]),
         end_month |-> ParseInt(m[3]), end_day |-> ParseInt(m[4])]

\* EndYear without the cross-year case.
EndYear_NoWrap(n, cy) == cy

\* EndYear taking an end month equal to the start month for a wrap.
EndYear_WrapOnEqual(n, cy) ==
    IF n.end_month <= n.start_month THEN cy + 1 ELSE cy

\* The year the end date is built in.
EndYear(n, cy) == IF n.end_month < n.start_month THEN cy + 1 ELSE cy

\* Whether get_date_range_from_folder raises ValueError: a date(...) call of
\* lines 58-62 gets values that are no calendar date. Nothing catches it.
RangeRaises(name, cy) ==
    /\ RangeMatch(name) # None
    /\ LET n == RangeNumbers(name)
       IN  \/ ~ValidDate(cy, n.start_month, n.start_day)
           \/ ~ValidDate(EndYear(n, cy), n.end_month, n.end_day)

\* What get_date_range_from_folder returns when it does not raise.
get_date_range_from_folder(name, cy) ==
    IF RangeMatch(name) # None
    THEN LET n == RangeNumbers(name)
         IN  [start_date |-> Date(cy, n.start_month, n.start_day),
              end_date |-> Date(EndYear(n, cy), n.end_month, n.end_day),
              year |-> cy]
    ELSE [start_date |-> NoDate, end_date |-> NoDate, year |-> cy]

-----------------------------------------------------------------------------
(* sort_files_by_date *)

\* Lines 81: the file's date is moved into the next year.
Wraps(file_date, sd, ed) ==
    sd # NoDate /\ ed # NoDate /\ MonthOf(file_date) < MonthOf(sd)

\* Whether the loop body raises for this file: file_date.replace(year=year+1)
\* is date(year + 1, month, day), a ValueError when that is no calendar date.
FileDateRaises(filename, sd, ed, y) ==
    LET file_date == extract_date_from_filename(filename, y)
    IN  /\ file_date # NoDate
        /\ Wraps(file_date, sd, ed)
        /\ ~ValidDate(y + 1, MonthOf(file_date), DayOf(file_date))

\* FileDateEntry with the smallest date as the sentinel.
FileDateEntry_MinSentinel(filename, sd, ed, y) ==
    LET file_date == extract_date_from_filename(filename, y)
    IN  IF file_date # NoDate
        THEN IF Wraps(file_date, sd, ed)
             THEN <<Date(y + 1, MonthOf(file_date), DayOf(file_date)), filename>>
             ELSE <<file_date, filename>>
        ELSE <<Date(1, 1, 1), filename>>

\* The pair the loop body appends for one file (lines 78-87).
FileDateEntry(filename, sd, ed, y) ==
    LET file_date == extract_date_from_filename(filename, y)
    IN  IF file_date # NoDate
        THEN IF Wraps(file_date, sd, ed)
             THEN <<Date(y + 1, MonthOf(file_date), DayOf(file_date)), filename>>
             ELSE <<file_date, filename>>
        ELSE <<DateMax, filename>>

\* An insertion that puts an entry before the entries of the same date.
RECURSIVE InsertByDate_Unstable(_, _)
InsertByDate_Unstable(sorted, e) ==
    IF sorted = <<>> THEN <<e>>
    ELSE IF ~DateLess(sorted[Len(sorted)][1], e[1])
         THEN Append(InsertByDate_Unstable(SubSeq(sorted, 1, Len(sorted) - 1), e),
                     sorted[Len(sorted)])
         ELSE Append(sorted, e)

\* list.sort(key=lambda x: x[0]) is stable: an entry goes after every entry
\* whose date is not greater.
RECURSIVE InsertByDate(_, _)
InsertByDate(sorted, e) ==
    IF sorted = <<>> THEN <<e>>
    ELSE IF DateLess(e[1], sorted[Len(sorted)][1])
         THEN Append(InsertByDate(SubSeq(sorted, 1, Len(sorted) - 1), e),
                     sorted[Len(sorted)])
         ELSE Append(sorted, e)

RECURSIVE SortByDate(_)
SortByDate(pairs) ==
    IF pairs = <<>> THEN <<>>
    ELSE InsertByDate(SortByDate(SubSeq(pairs, 1, Len(pairs) - 1)),
                      pairs[Len(pairs)])

\* Line 92: the file names of the sorted pairs.
Filenames(pairs) == [j \in 1..Len(pairs) |-> pairs[j][2]]

\* sort_files_by_date as a whole: the file names in date order, or raised when
\* the resolver or a loop iteration raises ValueError.
sort_files_by_date(files, name, cy) ==
    IF RangeRaises(name, cy) THEN [raised |-> TRUE, files |-> <<>>]
    ELSE LET r == get_date_range_from_folder(name, cy)
         IN  IF \E j \in 1..Len(files) :
                    FileDateRaises(files[j], r.start_date, r.end_date, r.year)
             THEN [raised |-> TRUE, files |-> <<>>]
             ELSE [raised |-> FALSE,
                   files |-> Filenames(SortByDate(
                       [j \in 1..Len(files) |->
                           FileDateEntry(files[j], r.start_date, r.end_date,
                                         r.year)]))]

-----------------------------------------------------------------------------
(* Inputs *)

\* The number of files of a folder.
MaxFiles == 3

\* The years the program may run in: a common year and a leap year.
Years == {2027, 2028}

FolderNames == {
    \* '7.6-7.12'
    <<"7",".","6","-","7",".","1","2">>,
    \* '12.25-1.5'
    <<"1","2",".","2","5","-","1",".","5">>,
    \* '12.25-3.5'
    <<"1","2",".","2","5","-","3",".","5">>,
    \* '7.12-7.6'
    <<"7",".","1","2","-","7",".","6">>,
    \* '13.40-14.1'
    <<"1","3",".","4","0","-","1","4",".","1">>,
    \* 'weekly'
    <<"w","e","e","k","l","y">>,
    \* '2.29-3.5'
    <<"2",".","2","9","-","3",".","5">>,
    \* '07.06-07.123'
    <<"0","7",".","0","6","-","0","7",".","1","2","3">>,
    \* '7.6-7.12' in Arabic-Indic digits, U+0660 to U+0669
    <<"U+0667",".","U+0666","-","U+0667",".","U+0661","U+0662">> }

FileNames == {
    \* '7-6.md'
    <<"7","-","6",".","m","d">>,
    \* '7-7.md'
    <<"7","-","7",".","m","d">>,
    \* '12-30.md'
    <<"1","2","-","3","0",".","m","d">>,
    \* '1-2.md'
    <<"1","-","2",".","m","d">>,
    \* '2-29.md'
    <<"2","-","2","9",".","m","d">>,
    \* '2-30.md'
    <<"2","-","3","0",".","m","d">>,
    \* 'notes.md'
    <<"n","o","t","e","s",".","m","d">>,
    \* '07-06.md.md'
    <<"0","7","-","0","6",".","m","d",".","m","d">>,
    \* '7-6.md' in fullwidth digits, U+FF17 and U+FF16
    <<"U+FF17","-","U+FF16",".","m","d">> }

\* The directory listings of at most n of the names: distinct names, in any
\* order.
RECURSIVE Listings(_, _)
Listings(names, n) ==
    IF n = 0 THEN {<<>>}
    ELSE LET shorter == Listings(names, n - 1)
         IN  shorter \cup
             {Append(l[1], l[2]) : l \in
                 {lf \in shorter \X names :
                     /\ Len(lf[1]) = n - 1
                     /\ \A j \in 1..Len(lf[1]) : lf[1][j] # lf[2]}}

-----------------------------------------------------------------------------
(* The file ordering, one step per loop iteration *)

InitOrder ==
    /\ folder_name \in FolderNames
    /\ md_files \in Listings(FileNames, MaxFiles) \ {<<>>}
    /\ current_year \in Years
    /\ pc = "resolve"
    /\ start_date = NoDate
    /\ end_date = NoDate
    /\ year = 0
    /\ file_dates = <<>>
    /\ sorted_files = <<>>
    /\ exception = "none"
    /\ file_contents = <<>>
    /\ parsed_files = <<>>
    /\ json_data = <<>>
    /\ section_index = 0
    /\ file_index = 0
    /\ run = 1
    /\ first_output = <<>>
    /\ parse_name = "None"
    /\ parse_lines = <<>>
    /\ parse_state = <<>>
    /\ parse_result = <<>>
    /\ tasks = <<>>
    /\ last_parser = <<>>
    /\ parallel_output = <<>>
    /\ retry_function = "None"
    /\ retry_text = <<>>
    /\ retry_attempt = 0
    /\ retry_calls = 0
    /\ retry_failures = 0
    /\ retry_waits = <<>>
    /\ retry_returned = <<>>
    /\ split_lines = <<>>
    /\ split_state = <<>>
    /\ split_index = 0
    /\ classify_text = <<>>
    /\ classify_section = "None"
    /\ classify_result = "None"
    /\ parse_iterations = 0

\* Line 73: get_date_range_from_folder returns.
Resolve ==
    /\ pc = "resolve"
    /\ ~RangeRaises(folder_name, current_year)
    /\ LET r == get_date_range_from_folder(folder_name, current_year)
       IN  /\ start_date' = r.start_date
           /\ end_date' = r.end_date
           /\ year' = r.year
    /\ pc' = "extract"
    /\ UNCHANGED <<inputVars, file_dates, sorted_files, exception, mergeVars,
                   runVars>>
    /\ UNCHANGED parseVars
    /\ UNCHANGED parallelVars
    /\ UNCHANGED retryVars
    /\ UNCHANGED splitVars
    /\ UNCHANGED classifyVars
    /\ UNCHANGED loopVars

\* Line 73: get_date_range_from_folder raises ValueError.
ResolveRaise ==
    /\ pc = "resolve"
    /\ RangeRaises(folder_name, current_year)
    /\ pc' = "raised"
    /\ exception' = "date"
    /\ UNCHANGED <<inputVars, orderVars, sorted_files, mergeVars, runVars>>
    /\ UNCHANGED parseVars
    /\ UNCHANGED parallelVars
    /\ UNCHANGED retryVars
    /\ UNCHANGED splitVars
    /\ UNCHANGED classifyVars
    /\ UNCHANGED loopVars

\* Lines 77-87: one iteration of the loop over md_files.
Extract ==
    /\ pc = "extract"
    /\ Len(file_dates) < Len(md_files)
    /\ LET filename == md_files[Len(file_dates) + 1]
       IN  /\ ~FileDateRaises(filename, start_date, end_date, year)
           /\ file_dates' = Append(file_dates,
                  FileDateEntry(filename, start_date, end_date, year))
    /\ UNCHANGED <<inputVars, pc, start_date, end_date, year, sorted_files,
                   exception, mergeVars, runVars>>
    /\ UNCHANGED parseVars
    /\ UNCHANGED parallelVars
    /\ UNCHANGED retryVars
    /\ UNCHANGED splitVars
    /\ UNCHANGED classifyVars
    /\ UNCHANGED loopVars

\* Line 83: file_date.replace raises ValueError.
ExtractRaise ==
    /\ pc = "extract"
    /\ Len(file_dates) < Len(md_files)
    /\ FileDateRaises(md_files[Len(file_dates) + 1], start_date, end_date, year)
    /\ pc' = "raised"
    /\ exception' = "replace"
    /\ UNCHANGED <<inputVars, orderVars, sorted_files, mergeVars, runVars>>
    /\ UNCHANGED parseVars
    /\ UNCHANGED parallelVars
    /\ UNCHANGED retryVars
    /\ UNCHANGED splitVars
    /\ UNCHANGED classifyVars
    /\ UNCHANGED loopVars

\* Lines 90-92: sort and return the file names.
SortReturn ==
    /\ pc = "extract"
    /\ Len(file_dates) = Len(md_files)
    /\ sorted_files' = Filenames(SortByDate(file_dates))
    /\ pc' = "sorted"
    /\ UNCHANGED <<inputVars, orderVars, exception, mergeVars, runVars>>
    /\ UNCHANGED parseVars
    /\ UNCHANGED parallelVars
    /\ UNCHANGED retryVars
    /\ UNCHANGED splitVars
    /\ UNCHANGED classifyVars
    /\ UNCHANGED loopVars

NextOrder ==
    \/ Resolve
    \/ ResolveRaise
    \/ Extract
    \/ ExtractRaise
    \/ SortReturn

SpecOrder == InitOrder /\ [][NextOrder]_vars

-----------------------------------------------------------------------------
(* str methods *)

\* A character outside ASCII is written by its code point: "U+2022" is the
\* one character '\u2022', the bullet.
Bullet == "U+2022"

\* The characters str.strip() removes: those for which str.isspace() holds.
\* A character that has no escape in a TLA+ string is named by its code
\* point, as the bullet is.
WhitespaceChars ==
    {" ", "\t", "\n", "\r", "\f", "U+000B", "U+001C", "U+001D", "U+001E",
     "U+001F", "U+0085", "U+00A0", "U+1680", "U+2000", "U+2001", "U+2002",
     "U+2003", "U+2004", "U+2005", "U+2006", "U+2007", "U+2008", "U+2009",
     "U+200A", "U+2028", "U+2029", "U+202F", "U+205F", "U+3000"}

\* c.isspace()
IsSpace(c) == c \in WhitespaceChars

\* c.lower() for the characters of the runs first-last/step>target of a
\* table: from the code point first to the code point last in steps of step,
\* the first one becoming the code point target and the others following at
\* the same distance.
LowerOfRuns(codes) ==
    UNION { {<<CodePoint(n),
                <<CodePoint(codes[4 * g] + (n - codes[4 * g - 3]))>> >> :
                 n \in {j \in codes[4 * g - 3]..codes[4 * g - 2] :
                          (j - codes[4 * g - 3]) % codes[4 * g - 1] = 0}} :
             g \in 1..(Len(codes) \div 4) }

\* c.lower() for each character that it changes. The dotted capital I, U+0130,
\* becomes two characters.
LowerTable ==
    FunctionOf(
        {<<"U+0130", <<"i", "U+0307">> >>} \cup LowerOfRuns(Codes(
        "00041-0005A/00001>00061 000C0-000D6/00001>000E0 000D8-000DE/00001>000F8 00100-0012E/00002>00101 00132-00136/00002>00133 00139-00147/00002>0013A 0014A-00176/00002>0014B 00178-00178/00001>000FF 00179-0017D/00002>0017A 00181-00181/00001>00253 00182-00184/00002>00183 00186-00186/00001>00254 00187-00187/00001>00188 00189-0018A/00001>00256 0018B-0018B/00001>0018C 0018E-0018E/00001>001DD 0018F-0018F/00001>00259 00190-00190/00001>0025B 00191-00191/00001>00192 00193-00193/00001>00260 00194-00194/00001>00263 00196-00196/00001>00269 00197-00197/00001>00268 00198-00198/00001>00199 0019C-0019C/00001>0026F 0019D-0019D/00001>00272 0019F-0019F/00001>00275 001A0-001A4/00002>001A1 001A6-001A6/00001>00280 001A7-001A7/00001>001A8 001A9-001A9/00001>00283 001AC-001AC/00001>001AD 001AE-001AE/00001>00288 001AF-001AF/00001>001B0 001B1-001B2/00001>0028A 001B3-001B5/00002>001B4 001B7-001B7/00001>00292 001B8-001B8/00001>001B9 001BC-001BC/00001>001BD 001C4-001C4/00001>001C6 001C5-001C5/00001>001C6 001C7-001C7/00001>001C9 001C8-001C8/00001>001C9 001CA-001CA/00001>001CC 001CB-001DB/00002>001CC 001DE-001EE/00002>001DF 001F1-001F1/00001>001F3 001F2-001F4/00002>001F3 001F6-001F6/00001>00195 001F7-001F7/00001>001BF 001F8-0021E/00002>001F9 00220-00220/00001>0019E 00222-00232/00002>00223 0023A-0023A/00001>02C65 0023B-0023B/00001>0023C 0023D-0023D/00001>0019A 0023E-0023E/00001>02C66 00241-00241/00001>00242 00243-00243/00001>00180 00244-00244/00001>00289 00245-00245/00001>0028C 00246-0024E/00002>00247 00370-00372/00002>00371 00376-00376/00001>00377 0037F-0037F/00001>003F3 00386-00386/00001>003AC 00388-0038A/00001>003AD 0038C-0038C/00001>003CC 0038E-0038F/00001>003CD 00391-003A1/00001>003B1 003A3-003AB/00001>003C3 003CF-003CF/00001>003D7 003D8-003EE/00002>003D9 003F4-003F4/00001>003B8 003F7-003F7/00001>003F8 003F9-003F9/00001>003F2 003FA-003FA/00001>003FB 003FD-003FF/00001>0037B 00400-0040F/00001>00450 00410-0042F/00001>00430 00460-00480/00002>00461 0048A-004BE/00002>0048B 004C0-004C0/00001>004CF 004C1-004CD/00002>004C2 004D0-0052E/00002>004D1 00531-00556/00001>00561 010A0-010C5/00001>02D00 010C7-010C7/00001>02D27 010CD-010CD/00001>02D2D 013A0-013EF/00001>0AB70 013F0-013F5/00001>013F8 01C90-01CBA/00001>010D0 01CBD-01CBF/00001>010FD 01E00-01E94/00002>01E01 01E9E-01E9E/00001>000DF 01EA0-01EFE/00002>01EA1 01F08-01F0F/00001>01F00 01F18-01F1D/00001>01F10 01F28-01F2F/00001>01F20 01F38-01F3F/00001>01F30 01F48-01F4D/00001>01F40 01F59-01F5F/00002>01F51 01F68-01F6F/00001>01F60 01F88-01F8F/00001>01F80 01F98-01F9F/00001>01F90 01FA8-01FAF/00001>01FA0 01FB8-01FB9/00001>01FB0 01FBA-01FBB/00001>01F70 01FBC-01FBC/00001>01FB3 01FC8-01FCB/00001>01F72 01FCC-01FCC/00001>01FC3 01FD8-01FD9/00001>01FD0 01FDA-01FDB/00001>01F76 01FE8-01FE9/00001>01FE0 01FEA-01FEB/00001>01F7A 01FEC-01FEC/00001>01FE5 01FF8-01FF9/00001>01F78 01FFA-01FFB/00001>01F7C 01FFC-01FFC/00001>01FF3 02126-02126/00001>003C9 0212A-0212A/00001>0006B 0212B-0212B/00001>000E5 02132-02132/00001>0214E 02160-0216F/00001>02170 02183-02183/00001>02184 024B6-024CF/00001>024D0 02C00-02C2F/00001>02C30 02C60-02C60/00001>02C61 02C62-02C62/00001>0026B 02C63-02C63/00001>01D7D 02C64-02C64/00001>0027D 02C67-02C6B/00002>02C68 02C6D-02C6D/00001>00251 02C6E-02C6E/00001>00271 02C6F-02C6F/00001>00250 02C70-02C70/00001>00252 02C72-02C72/00001>02C73 02C75-02C75/00001>02C76 02C7E-02C7F/00001>0023F 02C80-02CE2/00002>02C81 02CEB-02CED/00002>02CEC 02CF2-02CF2/00001>02CF3 0A640-0A66C/00002>0A641 0A680-0A69A/00002>0A681 0A722-0A72E/00002>0A723 0A732-0A76E/00002>0A733 0A779-0A77B/00002>0A77A 0A77D-0A77D/00001>01D79 0A77E-0A786/00002>0A77F 0A78B-0A78B/00001>0A78C 0A78D-0A78D/00001>00265 0A790-0A792/00002>0A791 0A796-0A7A8/00002>0A797 0A7AA-0A7AA/00001>00266 0A7AB-0A7AB/00001>0025C 0A7AC-0A7AC/00001>00261 0A7AD-0A7AD/00001>0026C 0A7AE-0A7AE/00001>0026A 0A7B0-0A7B0/00001>0029E 0A7B1-0A7B1/00001>00287 0A7B2-0A7B2/00001>0029D 0A7B3-0A7B3/00001>0AB53 0A7B4-0A7C2/00002>0A7B5 0A7C4-0A7C4/00001>0A794 0A7C5-0A7C5/00001>00282 0A7C6-0A7C6/00001>01D8E 0A7C7-0A7C9/00002>0A7C8 0A7D0-0A7D0/00001>0A7D1 0A7D6-0A7D8/00002>0A7D7 0A7F5-0A7F5/00001>0A7F6 0FF21-0FF3A/00001>0FF41 10400-10427/00001>10428 104B0-104D3/00001>104D8 10570-1057A/00001>10597 1057C-1058A/00001>105A3 1058C-10592/00001>105B3 10594-10595/00001>105BB 10C80-10CB2/00001>10CC0 118A0-118BF/00001>118C0 16E40-16E5F/00001>16E60 1E900-1E921/00001>1E922 ")))

\* table[c] where there is one, c itself elsewhere.
Changed(table, c) == IF c \in DOMAIN table THEN table[c] ELSE <<c>>

\* c.lower() for one character: a string, of two characters for U+0130.
LowerChar(c) == Changed(LowerTable, c)

\* The characters with the Unicode property Cased.
Cased ==
    InRanges(Codes(
        "00041-0005A 00061-0007A 000AA-000AA 000B5-000B5 000BA-000BA 000C0-000D6 000D8-000F6 000F8-001BA 001BC-001BF 001C4-00293 00295-002B8 002C0-002C1 002E0-002E4 00345-00345 00370-00373 00376-00377 0037A-0037D 0037F-0037F 00386-00386 00388-0038A 0038C-0038C 0038E-003A1 003A3-003F5 003F7-00481 0048A-0052F 00531-00556 00560-00588 010A0-010C5 010C7-010C7 010CD-010CD 010D0-010FA 010FD-010FF 013A0-013F5 013F8-013FD 01C80-01C88 01C90-01CBA 01CBD-01CBF 01D00-01DBF 01E00-01F15 01F18-01F1D 01F20-01F45 01F48-01F4D 01F50-01F57 01F59-01F59 01F5B-01F5B 01F5D-01F5D 01F5F-01F7D 01F80-01FB4 01FB6-01FBC 01FBE-01FBE 01FC2-01FC4 01FC6-01FCC 01FD0-01FD3 01FD6-01FDB 01FE0-01FEC 01FF2-01FF4 01FF6-01FFC 02071-02071 0207F-0207F 02090-0209C 02102-02102 02107-02107 0210A-02113 02115-02115 02119-0211D 02124-02124 02126-02126 02128-02128 0212A-0212D 0212F-02134 02139-02139 0213C-0213F 02145-02149 0214E-0214E 02160-0217F 02183-02184 024B6-024E9 02C00-02CE4 02CEB-02CEE 02CF2-02CF3 02D00-02D25 02D27-02D27 02D2D-02D2D 0A640-0A66D 0A680-0A69D 0A722-0A787 0A78B-0A78E 0A790-0A7CA 0A7D0-0A7D1 0A7D3-0A7D3 0A7D5-0A7D9 0A7F5-0A7F6 0A7F8-0A7FA 0AB30-0AB5A 0AB5C-0AB68 0AB70-0ABBF 0FB00-0FB06 0FB13-0FB17 0FF21-0FF3A 0FF41-0FF5A 10400-1044F 104B0-104D3 104D8-104FB 10570-1057A 1057C-1058A 1058C-10592 10594-10595 10597-105A1 105A3-105B1 105B3-105B9 105BB-105BC 10780-10780 10783-10785 10787-107B0 107B2-107BA 10C80-10CB2 10CC0-10CF2 118A0-118DF 16E40-16E7F 1D400-1D454 1D456-1D49C 1D49E-1D49F 1D4A2-1D4A2 1D4A5-1D4A6 1D4A9-1D4AC 1D4AE-1D4B9 1D4BB-1D4BB 1D4BD-1D4C3 1D4C5-1D505 1D507-1D50A 1D50D-1D514 1D516-1D51C 1D51E-1D539 1D53B-1D53E 1D540-1D544 1D546-1D546 1D54A-1D550 1D552-1D6A5 1D6A8-1D6C0 1D6C2-1D6DA 1D6DC-1D6FA 1D6FC-1D714 1D716-1D734 1D736-1D74E 1D750-1D76E 1D770-1D788 1D78A-1D7A8 1D7AA-1D7C2 1D7C4-1D7CB 1DF00-1DF09 1DF0B-1DF1E 1E900-1E943 1F130-1F149 1F150-1F169 1F170-1F189 "))

\* The characters with the Unicode property Case_Ignorable.
CaseIgnorable ==
    InRanges(Codes(
        "00027-00027 0002E-0002E 0003A-0003A 0005E-0005E 00060-00060 000A8-000A8 000AD-000AD 000AF-000AF 000B4-000B4 000B7-000B8 002B0-0036F 00374-00375 0037A-0037A 00384-00385 00387-00387 00483-00489 00559-00559 0055F-0055F 00591-005BD 005BF-005BF 005C1-005C2 005C4-005C5 005C7-005C7 005F4-005F4 00600-00605 00610-0061A 0061C-0061C 00640-00640 0064B-0065F 00670-00670 006D6-006DD 006DF-006E8 006EA-006ED 0070F-0070F 00711-00711 00730-0074A 007A6-007B0 007EB-007F5 007FA-007FA 007FD-007FD 00816-0082D 00859-0085B 00888-00888 00890-00891 00898-0089F 008C9-00902 0093A-0093A 0093C-0093C 00941-00948 0094D-0094D 00951-00957 00962-00963 00971-00971 00981-00981 009BC-009BC 009C1-009C4 009CD-009CD 009E2-009E3 009FE-009FE 00A01-00A02 00A3C-00A3C 00A41-00A42 00A47-00A48 00A4B-00A4D 00A51-00A51 00A70-00A71 00A75-00A75 00A81-00A82 00ABC-00ABC 00AC1-00AC5 00AC7-00AC8 00ACD-00ACD 00AE2-00AE3 00AFA-00AFF 00B01-00B01 00B3C-00B3C 00B3F-00B3F 00B41-00B44 00B4D-00B4D 00B55-00B56 00B62-00B63 00B82-00B82 00BC0-00BC0 00BCD-00BCD 00C00-00C00 00C04-00C04 00C3C-00C3C 00C3E-00C40 00C46-00C48 00C4A-00C4D 00C55-00C56 00C62-00C63 00C81-00C81 00CBC-00CBC 00CBF-00CBF 00CC6-00CC6 00CCC-00CCD 00CE2-00CE3 00D00-00D01 00D3B-00D3C 00D41-00D44 00D4D-00D4D 00D62-00D63 00D81-00D81 00DCA-00DCA 00DD2-00DD4 00DD6-00DD6 00E31-00E31 00E34-00E3A 00E46-00E4E 00EB1-00EB1 00EB4-00EBC 00EC6-00EC6 00EC8-00ECD 00F18-00F19 00F35-00F35 00F37-00F37 00F39-00F39 00F71-00F7E 00F80-00F84 00F86-00F87 00F8D-00F97 00F99-00FBC 00FC6-00FC6 0102D-01030 01032-01037 01039-0103A 0103D-0103E 01058-01059 0105E-01060 01071-01074 01082-01082 01085-01086 0108D-0108D 0109D-0109D 010FC-010FC 0135D-0135F 01712-01714 01732-01733 01752-01753 01772-01773 017B4-017B5 017B7-017BD 017C6-017C6 017C9-017D3 017D7-017D7 017DD-017DD 0180B-0180F 01843-01843 01885-01886 018A9-018A9 01920-01922 01927-01928 01932-01932 01939-0193B 01A17-01A18 01A1B-01A1B 01A56-01A56 01A58-01A5E 01A60-01A60 01A62-01A62 01A65-01A6C 01A73-01A7C 01A7F-01A7F 01AA7-01AA7 01AB0-01ACE 01B00-01B03 01B34-01B34 01B36-01B3A 01B3C-01B3C 01B42-01B42 01B6B-01B73 01B80-01B81 01BA2-01BA5 01BA8-01BA9 01BAB-01BAD 01BE6-01BE6 01BE8-01BE9 01BED-01BED 01BEF-01BF1 01C2C-01C33 01C36-01C37 01C78-01C7D 01CD0-01CD2 01CD4-01CE0 01CE2-01CE8 01CED-01CED 01CF4-01CF4 01CF8-01CF9 01D2C-01D6A 01D78-01D78 01D9B-01DFF 01FBD-01FBD 01FBF-01FC1 01FCD-01FCF 01FDD-01FDF 01FED-01FEF 01FFD-01FFE 0200B-0200F 02018-02019 02024-02024 02027-02027 0202A-0202E 02060-02064 02066-0206F 02071-02071 0207F-0207F 02090-0209C 020D0-020F0 02C7C-02C7D 02CEF-02CF1 02D6F-02D6F 02D7F-02D7F 02DE0-02DFF 02E2F-02E2F 03005-03005 0302A-0302D 03031-03035 0303B-0303B 03099-0309E 030FC-030FE 0A015-0A015 0A4F8-0A4FD 0A60C-0A60C 0A66F-0A672 0A674-0A67D 0A67F-0A67F 0A69C-0A69F 0A6F0-0A6F1 0A700-0A721 0A770-0A770 0A788-0A78A 0A7F2-0A7F4 0A7F8-0A7F9 0A802-0A802 0A806-0A806 0A80B-0A80B 0A825-0A826 0A82C-0A82C 0A8C4-0A8C5 0A8E0-0A8F1 0A8FF-0A8FF 0A926-0A92D 0A947-0A951 0A980-0A982 0A9B3-0A9B3 0A9B6-0A9B9 0A9BC-0A9BD 0A9CF-0A9CF 0A9E5-0A9E6 0AA29-0AA2E 0AA31-0AA32 0AA35-0AA36 0AA43-0AA43 0AA4C-0AA4C 0AA70-0AA70 0AA7C-0AA7C 0AAB0-0AAB0 0AAB2-0AAB4 0AAB7-0AAB8 0AABE-0AABF 0AAC1-0AAC1 0AADD-0AADD 0AAEC-0AAED 0AAF3-0AAF4 0AAF6-0AAF6 0AB5B-0AB5F 0AB69-0AB6B 0ABE5-0ABE5 0ABE8-0ABE8 0ABED-0ABED 0FB1E-0FB1E 0FBB2-0FBC2 0FE00-0FE0F 0FE13-0FE13 0FE20-0FE2F 0FE52-0FE52 0FE55-0FE55 0FEFF-0FEFF 0FF07-0FF07 0FF0E-0FF0E 0FF1A-0FF1A 0FF3E-0FF3E 0FF40-0FF40 0FF70-0FF70 0FF9E-0FF9F 0FFE3-0FFE3 0FFF9-0FFFB 101FD-101FD 102E0-102E0 10376-1037A 10780-10785 10787-107B0 107B2-107BA 10A01-10A03 10A05-10A06 10A0C-10A0F 10A38-10A3A 10A3F-10A3F 10AE5-10AE6 10D24-10D27 10EAB-10EAC 10F46-10F50 10F82-10F85 11001-11001 11038-11046 11070-11070 11073-11074 1107F-11081 110B3-110B6 110B9-110BA 110BD-110BD 110C2-110C2 110CD-110CD 11100-11102 11127-1112B 1112D-11134 11173-11173 11180-11181 111B6-111BE 111C9-111CC 111CF-111CF 1122F-11231 11234-11234 11236-11237 1123E-1123E 112DF-112DF 112E3-112EA 11300-11301 1133B-1133C 11340-11340 11366-1136C 11370-11374 11438-1143F 11442-11444 11446-11446 1145E-1145E 114B3-114B8 114BA-114BA 114BF-114C0 114C2-114C3 115B2-115B5 115BC-115BD 115BF-115C0 115DC-115DD 11633-1163A 1163D-1163D 1163F-11640 116AB-116AB 116AD-116AD 116B0-116B5 116B7-116B7 1171D-1171F 11722-11725 11727-1172B 1182F-11837 11839-1183A 1193B-1193C 1193E-1193E 11943-11943 119D4-119D7 119DA-119DB 119E0-119E0 11A01-11A0A 11A33-11A38 11A3B-11A3E 11A47-11A47 11A51-11A56 11A59-11A5B 11A8A-11A96 11A98-11A99 11C30-11C36 11C38-11C3D 11C3F-11C3F 11C92-11CA7 11CAA-11CB0 11CB2-11CB3 11CB5-11CB6 11D31-11D36 11D3A-11D3A 11D3C-11D3D 11D3F-11D45 11D47-11D47 11D90-11D91 11D95-11D95 11D97-11D97 11EF3-11EF4 13430-13438 16AF0-16AF4 16B30-16B36 16B40-16B43 16F4F-16F4F 16F8F-16F9F 16FE0-16FE1 16FE3-16FE4 1AFF0-1AFF3 1AFF5-1AFFB 1AFFD-1AFFE 1BC9D-1BC9E 1BCA0-1BCA3 1CF00-1CF2D 1CF30-1CF46 1D167-1D169 1D173-1D182 1D185-1D18B 1D1AA-1D1AD 1D242-1D244 1DA00-1DA36 1DA3B-1DA6C 1DA75-1DA75 1DA84-1DA84 1DA9B-1DA9F 1DAA1-1DAAF 1E000-1E006 1E008-1E018 1E01B-1E021 1E023-1E024 1E026-1E02A 1E130-1E13D 1E2AE-1E2AE 1E2EC-1E2EF 1E8D0-1E8D6 1E944-1E94B 1F3FB-1F3FF E0001-E0001 E0020-E007F E0100-E01EF "))

\* What the rule of the final sigma asks of a character.
CaseClass(c) ==
    IF c \in CaseIgnorable THEN "ignorable"
    ELSE IF c \in Cased THEN "cased" ELSE "other"

\* Whether position i is in the context Final_Sigma: the nearest character
\* before it that is not case-ignorable is cased, and the nearest one after it
\* that is not case-ignorable, when there is one, is not cased.
FinalIn(class, i) ==
    LET before == {j \in 1..(i - 1) : class[j] # "ignorable"}
        after == {j \in (i + 1)..Len(class) : class[j] # "ignorable"}
    IN  /\ before # {}
        /\ class[CHOOSE j \in before : \A k \in before : k <= j] = "cased"
        /\ \/ after = {}
           \/ class[CHOOSE j \in after : \A k \in after : j <= k] # "cased"

\* Whether the capital sigma at s[i] is a final one.
FinalSigma(s, i) == FinalIn([j \in 1..Len(s) |-> CaseClass(s[j])], i)

\* s[i:].lower() as part of s.lower(): a capital sigma becomes the final small
\* sigma where it is final and the small sigma elsewhere.
RECURSIVE LowerFrom(_, _)
LowerFrom(s, i) ==
    IF i > Len(s) THEN <<>>
    ELSE (IF s[i] = "U+03A3"
          THEN IF FinalSigma(s, i) THEN <<"U+03C2">> ELSE <<"U+03C3">>
          ELSE LowerChar(s[i])) \o LowerFrom(s, i + 1)

\* s.lower()
Lower(s) == LowerFrom(s, 1)

\* s.lstrip()
LStrip(s) ==
    IF \A j \in 1..Len(s) : IsSpace(s[j]) THEN <<>>
    ELSE LET first == CHOOSE j \in 1..Len(s) :
                 ~IsSpace(s[j]) /\ \A k \in 1..(j - 1) : IsSpace(s[k])
         IN  SubSeq(s, first, Len(s))

\* s.rstrip()
RStrip(s) ==
    IF \A j \in 1..Len(s) : IsSpace(s[j]) THEN <<>>
    ELSE LET last == CHOOSE j \in 1..Len(s) :
                 ~IsSpace(s[j]) /\ \A k \in (j + 1)..Len(s) : IsSpace(s[k])
         IN  SubSeq(s, 1, last)

\* s.strip()
Strip(s) == RStrip(LStrip(s))

\* s.startswith(p)
StartsWith(s, p) == MatchAt(s, 1, p)

\* s.endswith(p)
EndsWith(s, p) == MatchAt(s, Len(s) - Len(p) + 1, p)

\* sub in s
Contains(s, sub) == \E pos \in 1..(Len(s) + 1) : MatchAt(s, pos, sub)

\* The first position >= from at which sub occurs in s, 0 when there is none
\* (s.find(sub, from - 1) + 1: positions here count from 1).
Find(s, sub, from) ==
    IF \E pos \in from..(Len(s) + 1) : MatchAt(s, pos, sub)
    THEN CHOOSE pos \in from..(Len(s) + 1) :
             /\ MatchAt(s, pos, sub)
             /\ \A q \in from..(pos - 1) : ~MatchAt(s, q, sub)
    ELSE 0

\* a + ' ' + b
JoinSpace(a, b) == a \o <<" ">> \o b

\* line.strip() and all(c == '-' for c in line.strip()): a line of dashes.
AllDashes(line) ==
    LET t == Strip(line)
    IN  t # <<>> /\ \A j \in 1..Len(t) : t[j] = "-"

\* line in ['* * *', '* *'] or all(c in ['*', ' '] for c in line), for a
\* stripped line: both literals are made of '*' and ' ' alone.
IsDelimiter(line) == \A j \in 1..Len(line) : line[j] \in {"*", " "}

-----------------------------------------------------------------------------
(* The inline link expression r'\[([^\]]+)\]\(([^)]+)\)' *)

\* The first position > from holding character c, 0 when there is none.
NextChar(s, from, c) ==
    IF \E q \in (from + 1)..Len(s) : s[q] = c
    THEN CHOOSE q \in (from + 1)..Len(s) :
             s[q] = c /\ \A k \in (from + 1)..(q - 1) : s[k] # c
    ELSE 0

\* The match of the expression starting at p, if any: '[', one or more
\* characters other than ']', ']', '(', one or more characters other than
\* ')', ')'. Each class is greedy and must run up to the first closing
\* character, so the match at p is unique.
LinkAt(s, p) ==
    LET q == NextChar(s, p, "]")
        r == NextChar(s, q + 1, ")")
    IN  IF /\ p <= Len(s) /\ s[p] = "["
           /\ q >= p + 2
           /\ q + 1 <= Len(s) /\ s[q + 1] = "("
           /\ r >= q + 3
        THEN [found |-> TRUE, text |-> SubSeq(s, p + 1, q - 1),
              url |-> SubSeq(s, q + 2, r - 1), last |-> r]
        ELSE [found |-> FALSE, text |-> <<>>, url |-> <<>>, last |-> 0]

\* The start of the leftmost match at or after from, 0 when there is none.
FirstLink(s, from) ==
    IF \E p \in from..Len(s) : LinkAt(s, p).found
    THEN CHOOSE p \in from..Len(s) :
             LinkAt(s, p).found /\ \A k \in from..(p - 1) : ~LinkAt(s, k).found
    ELSE 0

\* extract_link_from_text: the target of the first inline link, or None.
extract_link_from_text(text) ==
    LET p == FirstLink(text, 1)
    IN  IF p = 0 THEN None ELSE LinkAt(text, p).url

\* re.sub(r'\[([^\]]+)\]\([^)]+\)', r'\1', s) from position from on: every
\* match, left to right, replaced by its link text.
RECURSIVE SubLinksFrom(_, _)
SubLinksFrom(s, from) ==
    LET p == FirstLink(s, from)
    IN  IF p = 0 THEN Slice(s, from, Len(s))
        ELSE Slice(s, from, p - 1) \o LinkAt(s, p).text
                 \o SubLinksFrom(s, LinkAt(s, p).last + 1)

SubLinks(s) == SubLinksFrom(s, 1)

\* A title that keeps its date.
StripDateSuffix_Kept(s) == s

\* re.sub(r'\s*\(\d{4}-\d{2}-\d{2}\)$', '', s): a date in parentheses at the
\* end of s is removed with the whitespace before it.
StripDateSuffix(s) ==
    LET n == Len(s)
        isDate ==
            /\ n >= 12
            /\ s[n - 11] = "(" /\ s[n] = ")"
            /\ s[n - 6] = "-" /\ s[n - 3] = "-"
            /\ \A k \in {n - 10, n - 9, n - 8, n - 7, n - 5, n - 4, n - 2, n - 1} :
                   s[k] \in Digits
    IN  IF isDate THEN RStrip(Slice(s, 1, n - 12)) ELSE s

-----------------------------------------------------------------------------
(* Texts *)

\* A text is a Python string seen as text.split('\n'): a non-empty sequence
\* of lines. The empty string is one empty line.
EmptyText == << <<>> >>

\* '\n'.join(lines)
JoinLines(lines) == IF lines = <<>> THEN EmptyText ELSE lines

IsBlank(line) == \A j \in 1..Len(line) : IsSpace(line[j])

\* text.strip(): a line break is whitespace, so the blank lines at both ends
\* go, and with them the whitespace before the first and after the last
\* character.
StripText(text) ==
    IF \A j \in 1..Len(text) : IsBlank(text[j]) THEN EmptyText
    ELSE LET first == CHOOSE j \in 1..Len(text) :
                 ~IsBlank(text[j]) /\ \A k \in 1..(j - 1) : IsBlank(text[k])
             last == CHOOSE j \in 1..Len(text) :
                 ~IsBlank(text[j]) /\ \A k \in (j + 1)..Len(text) : IsBlank(text[k])
         IN  IF first = last THEN <<Strip(text[first])>>
             ELSE <<LStrip(text[first])>> \o Slice(text, first + 1, last - 1)
                      \o <<RStrip(text[last])>>

-----------------------------------------------------------------------------
(* parse_markdown_file: the section splitter *)

SectionNames == {"HIGHLIGHTS", "BUSINESS", "PRODUCTS", "TECHNOLOGY", "RESEARCH"}

\* The characters of a section name.
SectionChars(name) ==
    CASE name = "HIGHLIGHTS" -> <<"H","I","G","H","L","I","G","H","T","S">>
      [] name = "BUSINESS" -> <<"B","U","S","I","N","E","S","S">>
      [] name = "PRODUCTS" -> <<"P","R","O","D","U","C","T","S">>
      [] name = "TECHNOLOGY" -> <<"T","E","C","H","N","O","L","O","G","Y">>
      [] name = "RESEARCH" -> <<"R","E","S","E","A","R","C","H">>

\* line.strip() in sections.keys()
IsSectionHeader(line) == \E name \in SectionNames : SectionChars(name) = Strip(line)

HeaderSection(line) == CHOOSE name \in SectionNames : SectionChars(name) = Strip(line)

\* The splitter's variables before the first line (lines 617-629). "None" is
\* the current_section None.
SplitInit ==
    [sections |-> [name \in SectionNames |-> EmptyText],
     current_section |-> "None",
     section_content |-> <<>>,
     skip_next_dashes |-> FALSE,
     stopped |-> FALSE]

\* Lines 635-636, 652-653, 663-664: the lines collected so far become the
\* current section's text, replacing what the section held.
SaveSection(st) ==
    IF st.current_section # "None"
    THEN [st.sections EXCEPT ![st.current_section] =
              StripText(JoinLines(st.section_content))]
    ELSE st.sections

\* One iteration of the loop over the file's lines (lines 631-660).
SplitStep(st, line) ==
    IF IsSectionHeader(line)
    THEN [st EXCEPT !.sections = SaveSection(st),
                    !.current_section = HeaderSection(line),
                    !.section_content = <<>>,
                    !.skip_next_dashes = TRUE]
    ELSE IF st.skip_next_dashes /\ AllDashes(line)
    THEN [st EXCEPT !.skip_next_dashes = FALSE]
    ELSE IF Strip(line) = <<"*"," ","*"," ","*">>
    THEN IF st.current_section # "None"
         THEN [st EXCEPT !.section_content = Append(@, line)]
         ELSE st
    ELSE IF StartsWith(Strip(line),
                       <<"L","O","O","K","I","N","G"," ","A","H","E","A","D">>)
    THEN [st EXCEPT !.sections = SaveSection(st), !.stopped = TRUE]
    ELSE IF st.current_section # "None"
    THEN [st EXCEPT !.section_content = Append(@, line),
                    !.skip_next_dashes = FALSE]
    ELSE [st EXCEPT !.skip_next_dashes = FALSE]

\* The loop from line j on; break leaves it.
RECURSIVE SplitFrom(_, _, _)
SplitFrom(st, lines, j) ==
    IF j > Len(lines) \/ st.stopped THEN st
    ELSE SplitFrom(SplitStep(st, lines[j]), lines, j + 1)

\* parse_markdown_file(filepath)['sections'] for the file's content.
parse_markdown_file(content) ==
    SaveSection(SplitFrom(SplitInit, content, 1))

-----------------------------------------------------------------------------
(* clean_items: the item normalizer *)

\* An item is a Python dict: a record with 'description', 'reference_link'
\* and, for some items, 'title'. NoItem is None where an item is expected.
NoItem == [none |-> TRUE]

\* item.get('title', '')
GetTitle(item) == IF "title" \in DOMAIN item THEN item.title ELSE <<>>

\* Lines 594-601: the cleaned item, with the keys that are set.
CleanedItem(description, title, link) ==
    IF title # <<>>
    THEN IF Truthy(link)
         THEN [description |-> description, title |-> title,
               reference_link |-> link]
         ELSE [description |-> description, title |-> title]
    ELSE IF Truthy(link)
         THEN [description |-> description, reference_link |-> link]
         ELSE [description |-> description]

\* A normalizer that keeps every item.
HasContent_Always(item) == TRUE

\* Lines 582-592: whether the item is kept.
HasContent(item) ==
    SubLinks(Strip(item.description)) # <<>> \/ GetTitle(item) # <<>>

\* The cleaned form of an item that is kept.
CleanItem(item) ==
    LET description == SubLinks(Strip(item.description))
    IN  IF description = <<>>
        THEN CleanedItem(GetTitle(item), <<>>, item.reference_link)
        ELSE CleanedItem(description, GetTitle(item), item.reference_link)

RECURSIVE clean_items(_)
clean_items(items) ==
    IF items = <<>> THEN <<>>
    ELSE LET rest == clean_items(Tail(items))
         IN  IF HasContent(Head(items)) THEN <<CleanItem(Head(items))>> \o rest
             ELSE rest

-----------------------------------------------------------------------------
(* parse_simple_section: HIGHLIGHTS, PRODUCTS and unrecognized sections *)

\* lines[i + 1] exists and is a line of dashes.
DashesFollow(lines, i) == i + 1 <= Len(lines) /\ AllDashes(lines[i + 1])

\* Lines 136-137, 385-386: lines[i + 1] is a line of more than n dashes.
DashesLongerFollow(lines, i, n) ==
    DashesFollow(lines, i) /\ Len(Strip(lines[i + 1])) > n

\* The dashes under an item title are longer than this.
TitleDashes == 10

\* The parser's variables before the first line (lines 114-120).
SimpleInit ==
    [items |-> <<>>, current_item |-> NoItem,
     just_created_item_from_dashes |-> FALSE, i |-> 1]

\* Lines 144-148, 396-400: a new item under a title.
TitledItem(title) ==
    [title |-> title, description |-> <<>>, reference_link |-> None]

\* A content line joins the item's description; if its link replaced the
\* link the item has.
AddContent_LastLink(item, line) ==
    [item EXCEPT
        !.description = IF @ # <<>> THEN JoinSpace(@, line) ELSE line,
        !.reference_link =
            IF extract_link_from_text(line) # None
            THEN extract_link_from_text(line) ELSE @]

\* Lines 165-173, 509-517: a content line joins the item's description, and
\* its first link becomes the item's link when the item has none.
AddContent(item, line) ==
    [item EXCEPT
        !.description = IF @ # <<>> THEN JoinSpace(@, line) ELSE line,
        !.reference_link =
            IF extract_link_from_text(line) # None /\ ~Truthy(@)
            THEN extract_link_from_text(line) ELSE @]

\* Lines 140-141, 196-197: the open item, if any, joins the list.
FlushSimple(st) ==
    IF st.current_item # NoItem THEN Append(st.items, st.current_item)
    ELSE st.items

\* Lines 134-173: one line of PRODUCTS.
ProductsStep(lines, st) ==
    LET line == Strip(lines[st.i])
    IN  IF DashesLongerFollow(lines, st.i, TitleDashes)
        THEN [items |-> FlushSimple(st),
              current_item |-> TitledItem(line),
              just_created_item_from_dashes |-> TRUE,
              i |-> st.i + 2]
        ELSE IF /\ st.just_created_item_from_dashes
                /\ StartsWith(line, <<"*","*","[">>)
                /\ EndsWith(line, <<"*","*">>)
        THEN [st EXCEPT !.just_created_item_from_dashes = FALSE, !.i = @ + 1]
        ELSE [st EXCEPT
                 !.just_created_item_from_dashes =
                     IF @ /\ ~StartsWith(line, <<"*","*","[">>) THEN FALSE ELSE @,
                 !.current_item =
                     IF @ # NoItem THEN AddContent(@, line) ELSE @,
                 !.i = @ + 1]

\* Lines 176-191: one line of HIGHLIGHTS.
HighlightsStep(lines, st) ==
    LET line == Strip(lines[st.i])
        description == Strip(Tail(line))
    IN  IF StartsWith(line, <<"#">>)
        THEN [st EXCEPT !.i = @ + 1]
        ELSE IF StartsWith(line, <<Bullet>>)
        THEN IF description # <<>>
             THEN [st EXCEPT
                     !.items = Append(@,
                         [description |-> description,
                          reference_link |-> extract_link_from_text(description)]),
                     !.i = @ + 1]
             ELSE [st EXCEPT !.i = @ + 1]
        ELSE [st EXCEPT
                 !.items = Append(@,
                     [description |-> line,
                      reference_link |-> extract_link_from_text(line)]),
                 !.i = @ + 1]

\* One iteration of the loop of lines 121-193.
SimpleStep(lines, section_name, st) ==
    LET line == Strip(lines[st.i])
    IN  IF line = <<>> THEN [st EXCEPT !.i = @ + 1]
        ELSE IF IsDelimiter(line) THEN [st EXCEPT !.i = @ + 1]
        ELSE IF section_name = "PRODUCTS" THEN ProductsStep(lines, st)
        ELSE HighlightsStep(lines, st)

RECURSIVE SimpleRun(_, _, _)
SimpleRun(lines, section_name, st) ==
    IF st.i > Len(lines) THEN st
    ELSE SimpleRun(lines, section_name, SimpleStep(lines, section_name, st))

\* parse_simple_section(section_content, section_name)
parse_simple_section(section_content, section_name) ==
    clean_items(FlushSimple(SimpleRun(section_content, section_name, SimpleInit)))

-----------------------------------------------------------------------------
(* subcategory_mapping and detect_subcategory *)

CategorizedSections == {"BUSINESS", "TECHNOLOGY", "RESEARCH"}

\* subcategory_mapping[section].keys(), in the order of the dict.
Subcategories(section_name) ==
    CASE section_name = "BUSINESS" ->
             <<"Funding & Investment", "Company Updates",
               "Regulatory Developments", "Market Trends">>
      [] section_name = "TECHNOLOGY" ->
             <<"Open Source Projects", "Models & Datasets",
               "Developer Tools & Demos">>
      [] section_name = "RESEARCH" ->
             <<"Paper of the Week", "Notable Research">>

SubcategorySet(section_name) ==
    {Subcategories(section_name)[j] : j \in 1..Len(Subcategories(section_name))}

\* The characters of a subcategory name.
SubcatChars(name) ==
    CASE name = "Funding & Investment" ->
          <<"F","u","n","d","i","n","g"," ","&"," ","I","n","v","e","s","t","m","e","n","t">>
      [] name = "Company Updates" ->
          <<"C","o","m","p","a","n","y"," ","U","p","d","a","t","e","s">>
      [] name = "Regulatory Developments" ->
          <<"R","e","g","u","l","a","t","o","r","y"," ","D","e","v","e","l","o","p","m","e","n","t","s">>
      [] name = "Market Trends" ->
          <<"M","a","r","k","e","t"," ","T","r","e","n","d","s">>
      [] name = "Open Source Projects" ->
          <<"O","p","e","n"," ","S","o","u","r","c","e"," ","P","r","o","j","e","c","t","s">>
      [] name = "Models & Datasets" ->
          <<"M","o","d","e","l","s"," ","&"," ","D","a","t","a","s","e","t","s">>
      [] name = "Developer Tools & Demos" ->
          <<"D","e","v","e","l","o","p","e","r"," ","T","o","o","l","s"," ","&"," ","D","e","m","o","s">>
      [] name = "Paper of the Week" ->
          <<"P","a","p","e","r"," ","o","f"," ","t","h","e"," ","W","e","e","k">>
      [] name = "Notable Research" ->
          <<"N","o","t","a","b","l","e"," ","R","e","s","e","a","r","c","h">>

\* subcategory_mapping[section][name]: the keywords of a subcategory, in order.
Keywords(name) ==
    CASE name = "Funding & Investment" -> <<
          <<"f","u","n","d","i","n","g">>,
          <<"i","n","v","e","s","t","m","e","n","t">>,
          <<"a","r","r">>,
          <<"r","e","v","e","n","u","e">>,
          <<"r","a","i","s","e","d">>,
          <<"s","e","r","i","e","s">>,
          <<"m","i","l","l","i","o","n">>,
          <<"v","a","l","u","a","t","i","o","n">>,
          <<"f","u","n","d">> >>
      [] name = "Company Updates" -> <<
          <<"c","e","o">>,
          <<"l","a","u","n","c","h","e","s">>,
          <<"a","n","n","o","u","n","c","e","s">>,
          <<"i","n","t","r","o","d","u","c","e","s">>,
          <<"s","t","e","p","s">>,
          <<"r","o","l","e">>,
          <<"l","e","a","d","e","r","s","h","i","p">>,
          <<"p","a","r","t","n","e","r","s","h","i","p">>,
          <<"a","c","q","u","i","r","e","s">>,
          <<"a","p","o","l","o","g","y">>,
          <<"g","r","o","k">> >>
      [] name = "Regulatory Developments" -> <<
          <<"a","n","t","i","t","r","u","s","t">>,
          <<"c","o","m","p","l","a","i","n","t">>,
          <<"l","e","g","i","s","l","a","t","i","o","n">>,
          <<"e","u">>,
          <<"r","e","g","u","l","a","t","o","r","y">>,
          <<"l","e","g","a","l">> >>
      [] name = "Market Trends" -> <<
          <<"m","a","r","k","e","t">>,
          <<"t","r","e","n","d">>,
          <<"i","n","d","u","s","t","r","y">>,
          <<"c","o","m","p","a","n","i","e","s">>,
          <<"r","a","c","e">>,
          <<"p","a","y"," ","p","e","r">>,
          <<"a","n","a","l","y","s","i","s">>,
          <<"s","t","u","d","y">>,
          <<"m","c","p">>,
          <<"p","r","o","t","o","c","o","l">>,
          <<"s","h","o","p","p","i","n","g">>,
          <<"p","r","i","m","e"," ","d","a","y">> >>
      [] name = "Open Source Projects" -> <<
          <<"g","i","t","h","u","b">>,
          <<"o","p","e","n","-","s","o","u","r","c","e">>,
          <<"s","t","a","r","s">>,
          <<"r","e","p","o","s","i","t","o","r","y">>,
          <<"l","a","n","g","c","h","a","i","n">>,
          <<"p","y","t","o","r","c","h">> >>
      [] name = "Models & Datasets" -> <<
          <<"m","o","d","e","l">>,
          <<"d","a","t","a","s","e","t">>,
          <<"h","u","g","g","i","n","g","f","a","c","e">>,
          <<"p","a","r","a","m","e","t","e","r","s">>,
          <<"i","n","s","t","r","u","c","t">>,
          <<"d","o","w","n","l","o","a","d","s">> >>
      [] name = "Developer Tools & Demos" -> <<
          <<"d","e","m","o">>,
          <<"s","p","a","c","e">>,
          <<"g","r","a","d","i","o">>,
          <<"d","o","c","k","e","r">>,
          <<"i","n","t","e","r","f","a","c","e">>,
          <<"l","i","k","e","s">> >>
      [] name = "Paper of the Week" -> <<
          <<"p","a","p","e","r"," ","o","f"," ","t","h","e"," ","d","a","y">>,
          <<"p","a","p","e","r"," ","o","f"," ","t","h","e"," ","w","e","e","k">> >>
      [] name = "Notable Research" -> <<
          <<"n","o","t","a","b","l","e"," ","r","e","s","e","a","r","c","h">>,
          <<"r","e","s","e","a","r","c","h">> >>

\* Lines 564-569: the default subcategory of a section.
DefaultSubcategory(section_name) ==
    CASE section_name = "BUSINESS" -> "Company Updates"
      [] section_name = "TECHNOLOGY" -> "Developer Tools & Demos"
      [] section_name = "RESEARCH" -> "Notable Research"

\* Whether one of the subcategory's keywords occurs in the lowered text.
KeywordIn(name, text_lower) ==
    \E j \in 1..Len(Keywords(name)) : Contains(text_lower, Keywords(name)[j])

\* A classifier that looks at no keyword.
detect_subcategory_DefaultOnly(text, section_name) ==
    DefaultSubcategory(section_name)

\* detect_subcategory(text, section_name, subcategory_mapping)
detect_subcategory(text, section_name) ==
    LET text_lower == Lower(text)
        subs == Subcategories(section_name)
    IN  IF \E j \in 1..Len(subs) : KeywordIn(subs[j], text_lower)
        THEN subs[CHOOSE j \in 1..Len(subs) :
                     /\ KeywordIn(subs[j], text_lower)
                     /\ \A k \in 1..(j - 1) : ~KeywordIn(subs[k], text_lower)]
        ELSE DefaultSubcategory(section_name)

\* Line 378: the sub-headers of TECHNOLOGY that are no subcategory.
SubsectionHeaders == {
    \* 'New and Notable Models'
    <<"N","e","w"," ","a","n","d"," ","N","o","t","a","b","l","e"," ","M","o","d","e","l","s">>,
    \* 'Datasets'
    <<"D","a","t","a","s","e","t","s">>,
    \* 'Models'
    <<"M","o","d","e","l","s">>,
    \* 'Developer Tools'
    <<"D","e","v","e","l","o","p","e","r"," ","T","o","o","l","s">>,
    \* 'Spaces'
    <<"S","p","a","c","e","s">> }

\* No standalone name is known.
BusinessSubcategoryNames_None == {}

\* Line 458: business_subcategory_names.
BusinessSubcategoryNames == {
    \* 'M&A'
    <<"M","&","A">>,
    \* 'Market Analysis'
    <<"M","a","r","k","e","t"," ","A","n","a","l","y","s","i","s">>,
    \* 'Company Updates'
    <<"C","o","m","p","a","n","y"," ","U","p","d","a","t","e","s">>,
    \* 'Funding & Investment'
    <<"F","u","n","d","i","n","g"," ","&"," ","I","n","v","e","s","t","m","e","n","t">>,
    \* 'Regulatory Developments'
    <<"R","e","g","u","l","a","t","o","r","y"," ","D","e","v","e","l","o","p","m","e","n","t","s">>,
    \* 'Market Trends'
    <<"M","a","r","k","e","t"," ","T","r","e","n","d","s">> }

-----------------------------------------------------------------------------
(* parse_categorized_section: BUSINESS, TECHNOLOGY, RESEARCH *)

\* The dashes under a subcategory header are longer than this.
HeaderDashes == 5

\* The variables of the categorized parser if current_subcategory were kept
\* from the parser of the same section that read a line last.
CatInit_Carried(section_name) ==
    [result |-> [name \in SubcategorySet(section_name) |-> <<>>],
     current_subcategory |->
         IF /\ "current_subcategory" \in DOMAIN last_parser
            /\ DOMAIN last_parser.result = SubcategorySet(section_name)
         THEN last_parser.current_subcategory
         ELSE "None",
     current_item |-> NoItem,
     i |-> 1,
     single |-> {},
     raised |-> FALSE]

\* The parser's variables before the first line (lines 248-258). "None" is the
\* current_subcategory None. single holds the subcategories whose value in
\* result is one item instead of a list (lines 391, 432, 486), and raised
\* tells that a list method was called on such a value (AttributeError).
CatInit(section_name) ==
    [result |-> [name \in SubcategorySet(section_name) |-> <<>>],
     current_subcategory |-> "None",
     current_item |-> NoItem,
     i |-> 1,
     single |-> {},
     raised |-> FALSE]

\* result[current_subcategory].append(current_item)
AppendItem(st) ==
    IF st.current_subcategory \in st.single
    THEN [st EXCEPT !.raised = TRUE]
    ELSE [st EXCEPT !.result[st.current_subcategory] = Append(@, st.current_item)]

\* The open item if it were dropped instead of joining its list.
SavePrevious_Dropped(st) == st

\* Lines 299-300, 522-523: the open item, if any, joins its subcategory's list.
SavePrevious(st) ==
    IF st.current_item # NoItem /\ st.current_subcategory # "None"
    THEN AppendItem(st)
    ELSE st

\* Lines 389-393, 430-434, 484-488: the same, but in RESEARCH under 'Paper of
\* the Week' the item replaces the list.
SavePreviousOrReplace(section_name, st) ==
    IF st.current_item # NoItem /\ st.current_subcategory # "None"
    THEN IF section_name = "RESEARCH" /\ st.current_subcategory = "Paper of the Week"
         THEN [st EXCEPT !.result[st.current_subcategory] = <<st.current_item>>,
                         !.single = @ \cup {st.current_subcategory}]
         ELSE AppendItem(st)
    ELSE st

\* Lines 324-327, 333-336: a line joins the description; no link is looked for.
AddDescription(item, line) ==
    [item EXCEPT !.description = IF @ # <<>> THEN JoinSpace(@, line) ELSE line]

\* The step if a following line of dashes were never skipped.
SkipDashes_Never(lines, st) == [st EXCEPT !.i = @ + 1]

\* The step if a header over a line of dashes were read again and again.
SkipDashes_Stuck(lines, st) ==
    [st EXCEPT !.i = IF DashesFollow(lines, st.i) THEN @ ELSE @ + 1]

\* The step taken when the line skips a following line of dashes, if any.
SkipDashes(lines, st) ==
    [st EXCEPT !.i = IF DashesFollow(lines, st.i) THEN @ + 2 ELSE @ + 1]

\* Lines 275-278.
IsPaperOfTheDay(line) ==
    Contains(Lower(line),
             <<"p","a","p","e","r"," ","o","f"," ","t","h","e"," ","d","a","y">>)

\* Lines 281.
IsNotableResearch(line) ==
    Contains(Lower(line),
             <<"n","o","t","a","b","l","e"," ","r","e","s","e","a","r","c","h">>)

\* Line 297.
IsPaperTitle(line) ==
    /\ StartsWith(line, <<"[">>)
    /\ Contains(line, <<"]","(">>)
    /\ Contains(line, <<")">>)

\* Line 322.
IsAuthorsLine(line) ==
    \/ StartsWith(line, <<"*","*","A","u","t","h","o","r","s",":","*","*">>)
    \/ StartsWith(line, <<"*","*","I","n","s","t","i","t","u","t","i","o","n",":","*","*">>)

\* A RESEARCH block that leaves the plain content lines to the general code.
ResearchHandles_NoContent(line, st) ==
    \/ IsPaperOfTheDay(line)
    \/ IsNotableResearch(line)
    \/ IsPaperTitle(line)
    \/ IsAuthorsLine(line)

\* Whether the RESEARCH block of lines 273-338 handles the line.
ResearchHandles(line, st) ==
    \/ IsPaperOfTheDay(line)
    \/ IsNotableResearch(line)
    \/ IsPaperTitle(line)
    \/ IsAuthorsLine(line)
    \/ st.current_item # NoItem

\* Lines 273-338: the RESEARCH block, for a line it handles.
ResearchStep(lines, st) ==
    LET line == Strip(lines[st.i])
    IN  IF IsPaperOfTheDay(line)
        THEN [st EXCEPT !.current_subcategory = "Paper of the Week", !.i = @ + 1]
        ELSE IF IsNotableResearch(line)
        THEN LET saved ==
                     IF /\ st.current_item # NoItem
                        /\ st.current_subcategory = "Paper of the Week"
                     THEN [AppendItem(st) EXCEPT !.current_item = NoItem]
                     ELSE st
             IN  SkipDashes(lines,
                     [saved EXCEPT !.current_subcategory = "Notable Research"])
        ELSE IF IsPaperTitle(line)
        THEN [SavePrevious(st) EXCEPT
                 !.current_item =
                     [title |-> StripDateSuffix(SubLinks(line)),
                      description |-> <<>>,
                      reference_link |-> extract_link_from_text(line)],
                 !.current_subcategory =
                     IF @ = "None" THEN "Paper of the Week" ELSE @,
                 !.i = @ + 1]
        ELSE IF IsAuthorsLine(line)
        THEN [st EXCEPT
                 !.current_item = IF @ # NoItem THEN AddDescription(@, line) ELSE @,
                 !.i = @ + 1]
        ELSE [st EXCEPT !.current_item = AddDescription(@, line), !.i = @ + 1]

\* line.startswith('###') or line.startswith('##')
IsHashHeading(line) ==
    StartsWith(line, <<"#","#","#">>) \/ StartsWith(line, <<"#","#">>)

\* Lines 343-347: the line is a header of this subcategory.
IsSubcategoryHeader(lines, i, name) ==
    LET line == Strip(lines[i])
    IN  /\ Contains(Lower(line), Lower(SubcatChars(name)))
        /\ \/ IsHashHeading(line)
           \/ DashesLongerFollow(lines, i, HeaderDashes)

\* The first subcategory, in the order of the mapping, the line is a header
\* of; "None" when it is a header of none.
HeaderSubcategory(lines, i, section_name) ==
    LET subs == Subcategories(section_name)
    IN  IF \E j \in 1..Len(subs) : IsSubcategoryHeader(lines, i, subs[j])
        THEN subs[CHOOSE j \in 1..Len(subs) :
                     /\ IsSubcategoryHeader(lines, i, subs[j])
                     /\ \A k \in 1..(j - 1) : ~IsSubcategoryHeader(lines, i, subs[k])]
        ELSE "None"

\* The redirects of BUSINESS if the two targets were exchanged.
BusinessRedirect_Exchanged(lines, i) ==
    LET line_lower == Lower(Strip(lines[i]))
    IN  IF /\ \/ Contains(line_lower,
                     <<"m","a","r","k","e","t"," ","a","n","a","l","y","s","i","s">>)
              \/ Contains(line_lower, <<"a","n","a","l","y","s","i","s">>)
           /\ DashesFollow(lines, i)
        THEN "Company Updates"
        ELSE IF /\ \/ Contains(line_lower, <<"m","&","a">>)
                   \/ Contains(line_lower, <<"m","e","r","g","e","r","s">>)
                   \/ Contains(line_lower,
                          <<"p","a","r","t","n","e","r","s","h","i","p","s">>)
                /\ DashesFollow(lines, i)
        THEN "Market Trends"
        ELSE "None"

\* Lines 362-371: the subcategory a BUSINESS line over dashes redirects to,
\* "None" when it redirects to none.
BusinessRedirect(lines, i) ==
    LET line_lower == Lower(Strip(lines[i]))
    IN  IF /\ \/ Contains(line_lower,
                     <<"m","a","r","k","e","t"," ","a","n","a","l","y","s","i","s">>)
              \/ Contains(line_lower, <<"a","n","a","l","y","s","i","s">>)
           /\ DashesFollow(lines, i)
        THEN "Market Trends"
        ELSE IF /\ \/ Contains(line_lower, <<"m","&","a">>)
                   \/ Contains(line_lower, <<"m","e","r","g","e","r","s">>)
                   \/ Contains(line_lower,
                          <<"p","a","r","t","n","e","r","s","h","i","p","s">>)
                /\ DashesFollow(lines, i)
        THEN "Company Updates"
        ELSE "None"

\* Lines 377-379: a TECHNOLOGY sub-header that is dropped.
IsSubsectionHeader(line) ==
    /\ IsHashHeading(line)
    /\ \E header \in SubsectionHeaders : Contains(Lower(line), Lower(header))

\* Lines 414-426: whether the line is an item header, and its title and
\* description.
ItemHeader(line) ==
    IF StartsWith(line, <<"#","#","#">>)
    THEN [is_item_header |-> TRUE,
          title |-> Strip(Slice(line, 4, Len(line))),
          description |-> <<>>]
    ELSE IF StartsWith(line, <<"*","*">>) /\ EndsWith(line, <<"*","*">>)
    THEN [is_item_header |-> TRUE,
          title |-> Strip(Slice(line, 3, Len(line) - 2)),
          description |-> <<>>]
    ELSE IF StartsWith(line, <<"*","*">>) /\ Find(line, <<"*","*">>, 3) > 0
    THEN LET end_pos == Find(line, <<"*","*">>, 3)
         IN  [is_item_header |-> TRUE,
              title |-> Strip(Slice(line, 3, end_pos - 1)),
              description |-> Strip(Slice(line, end_pos + 2, Len(line)))]
    ELSE [is_item_header |-> FALSE, title |-> <<>>, description |-> <<>>]

\* line.startswith('•') or line.startswith('*')
IsBullet(line) == StartsWith(line, <<Bullet>>) \/ StartsWith(line, <<"*">>)

\* Lines 340-519: one line that the RESEARCH block did not handle.
GeneralStep(lines, section_name, st) ==
    LET line == Strip(lines[st.i])
        header == HeaderSubcategory(lines, st.i, section_name)
        redirect == BusinessRedirect(lines, st.i)
        h == ItemHeader(line)
        bullet == Strip(Tail(line))
    IN  IF header # "None"
        THEN SkipDashes(lines, [st EXCEPT !.current_subcategory = header])
        ELSE IF section_name = "BUSINESS" /\ redirect # "None"
        THEN [st EXCEPT !.current_subcategory = redirect, !.i = @ + 2]
        ELSE IF section_name = "TECHNOLOGY" /\ IsSubsectionHeader(line)
        THEN [st EXCEPT !.i = @ + 1]
        ELSE IF /\ section_name \in {"BUSINESS", "PRODUCTS"}
                /\ DashesLongerFollow(lines, st.i, TitleDashes)
        THEN [SavePreviousOrReplace(section_name, st) EXCEPT
                 !.current_item = TitledItem(line),
                 !.current_subcategory =
                     IF @ = "None" THEN detect_subcategory(line, section_name)
                     ELSE @,
                 !.i = @ + 2]
        ELSE IF h.is_item_header
        THEN [SavePreviousOrReplace(section_name, st) EXCEPT
                 !.current_item =
                     [title |-> SubLinks(h.title),
                      description |-> SubLinks(h.description),
                      reference_link |->
                          extract_link_from_text(JoinSpace(h.title, h.description))],
                 !.current_subcategory =
                     IF @ = "None"
                     THEN detect_subcategory(JoinSpace(h.title, line), section_name)
                     ELSE @,
                 !.i = @ + 1]
        ELSE IF section_name = "BUSINESS" /\ line \in BusinessSubcategoryNames
        THEN [st EXCEPT !.i = @ + 1]
        ELSE IF IsBullet(line)
        THEN IF section_name = "BUSINESS" /\ st.current_item # NoItem
             THEN [st EXCEPT !.current_item = AddContent(@, bullet), !.i = @ + 1]
             ELSE [SavePreviousOrReplace(section_name, st) EXCEPT
                      !.current_item =
                          [description |-> SubLinks(bullet),
                           reference_link |-> extract_link_from_text(bullet)],
                      !.current_subcategory =
                          IF @ = "None"
                          THEN detect_subcategory(bullet, section_name)
                          ELSE @,
                      !.i = @ + 1]
        ELSE IF st.current_item # NoItem /\ ~StartsWith(line, <<"[">>)
        THEN [st EXCEPT !.current_item = AddContent(@, line), !.i = @ + 1]
        ELSE [st EXCEPT !.i = @ + 1]

\* One iteration of the loop of lines 259-519.
CatStep(lines, section_name, st) ==
    LET line == Strip(lines[st.i])
    IN  IF line = <<>> THEN [st EXCEPT !.i = @ + 1]
        ELSE IF IsDelimiter(line) THEN [st EXCEPT !.i = @ + 1]
        ELSE IF section_name = "RESEARCH" /\ ResearchHandles(line, st)
        THEN ResearchStep(lines, st)
        ELSE GeneralStep(lines, section_name, st)

RECURSIVE CatRun(_, _, _)
CatRun(lines, section_name, st) ==
    IF st.i > Len(lines) \/ st.raised THEN st
    ELSE CatRun(lines, section_name, CatStep(lines, section_name, st))

\* The parser's state after the loop and the last item (lines 521-523).
CatFinal(section_content, section_name) ==
    SavePrevious(CatRun(section_content, section_name, CatInit(section_name)))

\* Whether parse_categorized_section raises: a list method on a single item
\* in the loop, or clean_items on one at line 550.
CatRaises(section_content, section_name) ==
    LET st == CatFinal(section_content, section_name)
    IN  st.raised \/ st.single # {}

\* parse_categorized_section(section_content, section_name) when it returns.
parse_categorized_section(section_content, section_name) ==
    LET st == CatFinal(section_content, section_name)
    IN  [name \in SubcategorySet(section_name) |-> clean_items(st.result[name])]

-----------------------------------------------------------------------------
(* merge_files_to_json: the aggregator *)

\* Lines 102-110: parse_section_items(section_content, section_name) when it
\* returns.
parse_section_items(section_content, section_name) ==
    IF section_name \in {"HIGHLIGHTS", "PRODUCTS"}
    THEN parse_simple_section(section_content, section_name)
    ELSE IF section_name \in {"BUSINESS", "TECHNOLOGY", "RESEARCH"}
    THEN parse_categorized_section(section_content, section_name)
    ELSE parse_simple_section(section_content, section_name)

\* Line 717: target_sections.
TargetSections == <<"HIGHLIGHTS", "BUSINESS", "PRODUCTS", "TECHNOLOGY", "RESEARCH">>

\* A structure that is built once and kept from one run to the next.
JsonInit_Kept ==
    IF DOMAIN json_data # {} THEN json_data
    ELSE [HIGHLIGHTS |-> <<>>,
          BUSINESS |-> [name \in {"Funding & Investment", "Company Updates",
                                  "Regulatory Developments", "Market Trends"} |-> <<>>],
          PRODUCTS |-> <<>>,
          TECHNOLOGY |-> [name \in {"Open Source Projects", "Models & Datasets",
                                    "Developer Tools & Demos"} |-> <<>>],
          RESEARCH |-> [name \in {"Paper of the Week", "Notable Research"} |-> <<>>]]

\* Lines 696-714: the JSON structure before the merge.
JsonInit ==
    [HIGHLIGHTS |-> <<>>,
     BUSINESS |-> [name \in {"Funding & Investment", "Company Updates",
                             "Regulatory Developments", "Market Trends"} |-> <<>>],
     PRODUCTS |-> <<>>,
     TECHNOLOGY |-> [name \in {"Open Source Projects", "Models & Datasets",
                               "Developer Tools & Demos"} |-> <<>>],
     RESEARCH |-> [name \in {"Paper of the Week", "Notable Research"} |-> <<>>]]

\* Line 721: file_data['sections'][section].strip() is not empty.
HasText(text) == StripText(text) # EmptyText

\* Whether parse_section_items raises on the text.
SectionRaises(text, section_name) ==
    section_name \in CategorizedSections /\ CatRaises(text, section_name)

\* A merge that keeps only the subcategories the document has items for.
ExtendSubcategories_NonEmptyOnly(lists, section_data) ==
    [name \in {n \in DOMAIN section_data : section_data[n] # <<>>} |->
        lists[name] \o section_data[name]]

\* Lines 732-735: each subcategory's items extend the list the JSON holds.
ExtendSubcategories(lists, section_data) ==
    [name \in DOMAIN lists |->
        IF name \in DOMAIN section_data THEN lists[name] \o section_data[name]
        ELSE lists[name]]

\* A merge that puts each document's items before the items merged so far.
MergeSection_Prepend(json, section_name, text) ==
    IF StripText(text) = EmptyText THEN json
    ELSE IF section_name \in {"HIGHLIGHTS", "PRODUCTS"}
    THEN [json EXCEPT ![section_name] =
              parse_simple_section(text, section_name) \o @]
    ELSE [json EXCEPT ![section_name] =
              [name \in DOMAIN @ |->
                  parse_categorized_section(text, section_name)[name] \o @[name]]]

\* Lines 721-735: the body of the merge loop for one section of one file.
MergeSection(json, section_name, text) ==
    IF ~HasText(text) THEN json
    ELSE IF section_name \in {"HIGHLIGHTS", "PRODUCTS"}
    THEN [json EXCEPT ![section_name] =
              @ \o parse_section_items(text, section_name)]
    ELSE [json EXCEPT ![section_name] =
              ExtendSubcategories(@, parse_section_items(text, section_name))]

-----------------------------------------------------------------------------
(* Folders *)

\* The number of files of a merged folder.
MaxDocs == 2

\* A full daily document with a terminal marker.
DocDaily == <<
    \* 'Title: Daily'
    <<"T","i","t","l","e",":"," ","D","a","i","l","y">>,
    \* 'HIGHLIGHTS'
    <<"H","I","G","H","L","I","G","H","T","S">>,
    \* '----------'
    <<"-","-","-","-","-","-","-","-","-","-">>,
    \* '• Model X launched'
    <<"U+2022"," ","M","o","d","e","l"," ","X"," ","l","a","u","n","c","h","e","d">>,
    \* '* * *'
    <<"*"," ","*"," ","*">>,
    \* 'BUSINESS'
    <<"B","U","S","I","N","E","S","S">>,
    \* '--------'
    <<"-","-","-","-","-","-","-","-">>,
    \* 'Funding Update'
    <<"F","u","n","d","i","n","g"," ","U","p","d","a","t","e">>,
    \* '------------'
    <<"-","-","-","-","-","-","-","-","-","-","-","-">>,
    \* 'See [here](https://x.com)'
    <<"S","e","e"," ","[","h","e","r","e","]","(","h","t","t","p","s",":","/","/","x",".","c","o","m",")">>,
    \* 'LOOKING AHEAD'
    <<"L","O","O","K","I","N","G"," ","A","H","E","A","D">>,
    \* 'RESEARCH'
    <<"R","E","S","E","A","R","C","H">>,
    \* 'ignored'
    <<"i","g","n","o","r","e","d">> >>

\* Highlights, a product whose title is echoed in bold, and a paper.
DocProducts == <<
    \* 'HIGHLIGHTS'
    <<"H","I","G","H","L","I","G","H","T","S">>,
    \* '• Model X launched'
    <<"U+2022"," ","M","o","d","e","l"," ","X"," ","l","a","u","n","c","h","e","d">>,
    \* 'See [here](https://x.com) for details'
    <<"S","e","e"," ","[","h","e","r","e","]","(","h","t","t","p","s",":","/","/","x",".","c","o","m",")"," ","f","o","r"," ","d","e","t","a","i","l","s">>,
    \* 'PRODUCTS'
    <<"P","R","O","D","U","C","T","S">>,
    \* 'Widget'
    <<"W","i","d","g","e","t">>,
    \* '-----------'
    <<"-","-","-","-","-","-","-","-","-","-","-">>,
    \* '**[Widget](http://w)**'
    <<"*","*","[","W","i","d","g","e","t","]","(","h","t","t","p",":","/","/","w",")","*","*">>,
    \* 'RESEARCH'
    <<"R","E","S","E","A","R","C","H">>,
    \* 'Paper of the Day'
    <<"P","a","p","e","r"," ","o","f"," ","t","h","e"," ","D","a","y">>,
    \* '[Great Paper](http://a) (2025-07-06)'
    <<"[","G","r","e","a","t"," ","P","a","p","e","r","]","(","h","t","t","p",":","/","/","a",")"," ","(","2","0","2","5","-","0","7","-","0","6",")">>,
    \* '**Authors:** A'
    <<"*","*","A","u","t","h","o","r","s",":","*","*"," ","A">> >>

\* TECHNOLOGY with a sub-header, an empty item header, a bullet and a linked header.
DocTechnology == <<
    \* 'TECHNOLOGY'
    <<"T","E","C","H","N","O","L","O","G","Y">>,
    \* '## Models'
    <<"#","#"," ","M","o","d","e","l","s">>,
    \* '###'
    <<"#","#","#">>,
    \* '• a demo'
    <<"U+2022"," ","a"," ","d","e","m","o">>,
    \* '### Tool [T](http://t)'
    <<"#","#","#"," ","T","o","o","l"," ","[","T","]","(","h","t","t","p",":","/","/","t",")">>,
    \* 'text'
    <<"t","e","x","t">>,
    \* ''
    <<>> >>

\* A document without any section.
DocNoSections == <<
    \* 'Title: nothing'
    <<"T","i","t","l","e",":"," ","n","o","t","h","i","n","g">>,
    \* ''
    <<>> >>

\* A heading-only HIGHLIGHTS and a RESEARCH section.
DocResearch == <<
    \* 'HIGHLIGHTS'
    <<"H","I","G","H","L","I","G","H","T","S">>,
    \* '# heading'
    <<"#"," ","h","e","a","d","i","n","g">>,
    \* 'RESEARCH'
    <<"R","E","S","E","A","R","C","H">>,
    \* 'Notable Research'
    <<"N","o","t","a","b","l","e"," ","R","e","s","e","a","r","c","h">>,
    \* '----'
    <<"-","-","-","-">>,
    \* '• bullet research'
    <<"U+2022"," ","b","u","l","l","e","t"," ","r","e","s","e","a","r","c","h">>,
    \* '[P](http://p)'
    <<"[","P","]","(","h","t","t","p",":","/","/","p",")">>,
    \* 'desc'
    <<"d","e","s","c">> >>

Docs == {DocDaily, DocProducts, DocTechnology, DocNoSections, DocResearch}

DocNames == {
    \* '7-6.md'
    <<"7","-","6",".","m","d">>,
    \* '7-7.md'
    <<"7","-","7",".","m","d">>,
    \* 'notes.md'
    <<"n","o","t","e","s",".","m","d">> }

MergeFolders == {
    \* '7.6-7.12'
    <<"7",".","6","-","7",".","1","2">>,
    \* '13.40-14.1'
    <<"1","3",".","4","0","-","1","4",".","1">> }

\* The year the folders are merged in.
MergeYear == 2027

\* The names of a listing.
NamesOf(listing) == {listing[j] : j \in 1..Len(listing)}

-----------------------------------------------------------------------------
(* The program: merge_files_to_json, run on a folder and run again *)

Init ==
    /\ folder_name \in MergeFolders
    /\ md_files \in Listings(DocNames, MaxDocs)
    /\ file_contents \in [NamesOf(md_files) -> Docs]
    /\ current_year = MergeYear
    /\ pc = "start"
    /\ start_date = NoDate
    /\ end_date = NoDate
    /\ year = 0
    /\ file_dates = <<>>
    /\ sorted_files = <<>>
    /\ exception = "none"
    /\ parsed_files = <<>>
    /\ json_data = <<>>
    /\ section_index = 0
    /\ file_index = 0
    /\ run = 1
    /\ first_output = <<>>
    /\ parse_name = "None"
    /\ parse_lines = <<>>
    /\ parse_state = <<>>
    /\ parse_result = <<>>
    /\ tasks = <<>>
    /\ last_parser = <<>>
    /\ parallel_output = <<>>
    /\ retry_function = "None"
    /\ retry_text = <<>>
    /\ retry_attempt = 0
    /\ retry_calls = 0
    /\ retry_failures = 0
    /\ retry_waits = <<>>
    /\ retry_returned = <<>>
    /\ split_lines = <<>>
    /\ split_state = <<>>
    /\ split_index = 0
    /\ classify_text = <<>>
    /\ classify_section = "None"
    /\ classify_result = "None"
    /\ parse_iterations = 0

\* Lines 681-683: no .md file; the program returns without writing.
NoFiles ==
    /\ pc = "start"
    /\ md_files = <<>>
    /\ pc' = "returned"
    /\ UNCHANGED <<inputVars, orderVars, sorted_files, exception, mergeVars,
                   runVars>>
    /\ UNCHANGED parseVars
    /\ UNCHANGED parallelVars
    /\ UNCHANGED retryVars
    /\ UNCHANGED splitVars
    /\ UNCHANGED classifyVars
    /\ UNCHANGED loopVars

\* Lines 686-689: the files are sorted by date.
SortFiles ==
    /\ pc = "start"
    /\ md_files # <<>>
    /\ LET r == sort_files_by_date(md_files, folder_name, current_year)
       IN  /\ ~r.raised
           /\ sorted_files' = r.files
    /\ parsed_files' = <<>>
    /\ pc' = "parse"
    /\ UNCHANGED <<inputVars, orderVars, exception, json_data, section_index,
                   file_index, runVars>>
    /\ UNCHANGED parseVars
    /\ UNCHANGED parallelVars
    /\ UNCHANGED retryVars
    /\ UNCHANGED splitVars
    /\ UNCHANGED classifyVars
    /\ UNCHANGED loopVars

\* Line 686: sort_files_by_date raises ValueError; nothing catches it.
SortFilesRaise ==
    /\ pc = "start"
    /\ md_files # <<>>
    /\ sort_files_by_date(md_files, folder_name, current_year).raised
    /\ exception' = IF RangeRaises(folder_name, current_year) THEN "date"
                    ELSE "replace"
    /\ pc' = "raised"
    /\ UNCHANGED <<inputVars, orderVars, sorted_files, mergeVars, runVars>>
    /\ UNCHANGED parseVars
    /\ UNCHANGED parallelVars
    /\ UNCHANGED retryVars
    /\ UNCHANGED splitVars
    /\ UNCHANGED classifyVars
    /\ UNCHANGED loopVars

\* Lines 690-693: the next file, in sorted order, is split into sections.
ParseFile ==
    /\ pc = "parse"
    /\ Len(parsed_files) < Len(sorted_files)
    /\ LET file == sorted_files[Len(parsed_files) + 1]
       IN  parsed_files' = Append(parsed_files,
               [filename |-> file,
                sections |-> parse_markdown_file(file_contents[file])])
    /\ UNCHANGED <<inputVars, pc, orderVars, sorted_files, exception, json_data,
                   section_index, file_index, runVars>>
    /\ UNCHANGED parseVars
    /\ UNCHANGED parallelVars
    /\ UNCHANGED retryVars
    /\ UNCHANGED splitVars
    /\ UNCHANGED classifyVars
    /\ UNCHANGED loopVars

\* Lines 696-719: the empty JSON structure; the merge loops start.
StartMerge ==
    /\ pc = "parse"
    /\ Len(parsed_files) = Len(sorted_files)
    /\ json_data' = JsonInit
    /\ section_index' = 1
    /\ file_index' = 1
    /\ pc' = "merge"
    /\ UNCHANGED <<inputVars, orderVars, sorted_files, exception, parsed_files,
                   runVars>>
    /\ UNCHANGED parseVars
    /\ UNCHANGED parallelVars
    /\ UNCHANGED retryVars
    /\ UNCHANGED splitVars
    /\ UNCHANGED classifyVars
    /\ UNCHANGED loopVars

\* Lines 719-735: one iteration of the inner loop, and the step to the next
\* file, the next section, or out of the loops.
MergeStep ==
    /\ pc = "merge"
    /\ LET section == TargetSections[section_index]
           text == parsed_files[file_index].sections[section]
       IN  IF HasText(text) /\ SectionRaises(text, section)
           THEN /\ pc' = "raised"
                /\ exception' = "AttributeError"
                /\ UNCHANGED <<json_data, section_index, file_index>>
           ELSE /\ json_data' = MergeSection(json_data, section, text)
                /\ exception' = exception
                /\ IF file_index < Len(parsed_files)
                   THEN /\ file_index' = file_index + 1
                        /\ UNCHANGED <<section_index, pc>>
                   ELSE IF section_index < Len(TargetSections)
                   THEN /\ section_index' = section_index + 1
                        /\ file_index' = 1
                        /\ pc' = pc
                   ELSE /\ pc' = "write"
                        /\ UNCHANGED <<section_index, file_index>>
    /\ UNCHANGED <<inputVars, orderVars, sorted_files, parsed_files, runVars>>
    /\ UNCHANGED parseVars
    /\ UNCHANGED parallelVars
    /\ UNCHANGED retryVars
    /\ UNCHANGED splitVars
    /\ UNCHANGED classifyVars
    /\ UNCHANGED loopVars

\* Lines 738-739: the JSON file is written.
WriteJson ==
    /\ pc = "write"
    /\ pc' = "done"
    /\ UNCHANGED <<inputVars, orderVars, sorted_files, exception, mergeVars,
                   runVars>>
    /\ UNCHANGED parseVars
    /\ UNCHANGED parallelVars
    /\ UNCHANGED retryVars
    /\ UNCHANGED splitVars
    /\ UNCHANGED classifyVars
    /\ UNCHANGED loopVars

\* The program is started again on the unchanged folder, in the same year.
\* What the first run left in memory is still there: every variable the
\* second run reads it must have set itself.
Rerun ==
    /\ pc = "done"
    /\ run = 1
    /\ run' = 2
    /\ first_output' = json_data
    /\ pc' = "start"
    /\ UNCHANGED <<inputVars, orderVars, sorted_files, exception, mergeVars>>
    /\ UNCHANGED parseVars
    /\ UNCHANGED parallelVars
    /\ UNCHANGED retryVars
    /\ UNCHANGED splitVars
    /\ UNCHANGED classifyVars
    /\ UNCHANGED loopVars

Next ==
    \/ NoFiles
    \/ SortFiles
    \/ SortFilesRaise
    \/ ParseFile
    \/ StartMerge
    \/ MergeStep
    \/ WriteJson
    \/ Rerun

Spec == Init /\ [][Next]_vars

-----------------------------------------------------------------------------
(* Section texts *)

\* The number of lines of a section text.
MaxLines == 4

\* 'See [here](https://x.com) for details'
LineSeeHere ==
    <<"S","e","e"," ","[","h","e","r","e","]","(","h","t","t","p","s",":","/",
      "/","x",".","c","o","m",")"," ","f","o","r"," ","d","e","t","a","i","l",
      "s">>

\* 'See [here](https://x.com)'
LineSeeHereShort ==
    <<"S","e","e"," ","[","h","e","r","e","]","(","h","t","t","p","s",":","/",
      "/","x",".","c","o","m",")">>

\* 'Funding Update'
LineFundingUpdate ==
    <<"F","u","n","d","i","n","g"," ","U","p","d","a","t","e">>

\* '------------'
LineDashes12 == <<"-","-","-","-","-","-","-","-","-","-","-","-">>

\* '----'
LineDashes4 == <<"-","-","-","-">>

\* 'Paper of the Day'
LinePaperOfTheDay ==
    <<"P","a","p","e","r"," ","o","f"," ","t","h","e"," ","D","a","y">>

\* '[Great Paper](http://a) (2025-07-06)'
LineGreatPaper ==
    <<"[","G","r","e","a","t"," ","P","a","p","e","r","]","(","h","t","t","p",
      ":","/","/","a",")"," ","(","2","0","2","5","-","0","7","-","0","6",
      ")">>

\* '**Authors:** A'
LineAuthors == <<"*","*","A","u","t","h","o","r","s",":","*","*"," ","A">>

\* 'Notable Research'
LineNotableResearch ==
    <<"N","o","t","a","b","l","e"," ","R","e","s","e","a","r","c","h">>

\* '• Model X launched'
LineBulletModelX ==
    <<"U+2022"," ","M","o","d","e","l"," ","X"," ","l","a","u","n","c","h",
      "e","d">>

\* '* Model Y'
LineStarModelY == <<"*"," ","M","o","d","e","l"," ","Y">>

\* '\t• ': a tab, the bullet, a space
LineBulletOnly == <<"\t","U+2022"," ">>

\* '# heading'
LineHeading == <<"#"," ","h","e","a","d","i","n","g">>

\* ''
LineBlank == <<>>

\* '* * *'
LineDelimiter == <<"*"," ","*"," ","*">>

\* 'Widget'
LineWidget == <<"W","i","d","g","e","t">>

\* '**[Widget](http://w)** new'
LineBoldWidgetNew ==
    <<"*","*","[","W","i","d","g","e","t","]","(","h","t","t","p",":","/","/","w",")","*","*"," ","n","e","w">>

\* '**[Widget](http://w)**'
LineBoldWidget ==
    <<"*","*","[","W","i","d","g","e","t","]","(","h","t","t","p",":","/","/",
      "w",")","*","*">>

\* 'More [info](http://b)'
LineMoreInfo ==
    <<"M","o","r","e"," ","[","i","n","f","o","]","(","h","t","t","p",":","/",
      "/","b",")">>

\* '• raised $5M'
LineBulletRaised == <<"U+2022"," ","r","a","i","s","e","d"," ","$","5","M">>

\* '**Acme** announces'
LineAcme ==
    <<"*","*","A","c","m","e","*","*"," ","a","n","n","o","u","n","c","e",
      "s">>

\* '## Models'
LineModels == <<"#","#"," ","M","o","d","e","l","s">>

\* '###'
LineHashes == <<"#","#","#">>

\* '• a demo'
LineBulletDemo == <<"U+2022"," ","a"," ","d","e","m","o">>

\* '### Tool [T](http://t)'
LineTool ==
    <<"#","#","#"," ","T","o","o","l"," ","[","T","]","(","h","t","t","p",":",
      "/","/","t",")">>

\* '### Survey'
LineSurvey == <<"#","#","#"," ","S","u","r","v","e","y">>

\* The lines a section text is made of, for each section.
SectionLines(name) ==
    CASE name = "HIGHLIGHTS" ->
             {LineBulletModelX, LineStarModelY, LineSeeHere,
              LineHeading, LineBlank, LineDelimiter, LineBulletOnly}
      [] name = "PRODUCTS" ->
             {LineWidget, LineDashes12, LineBoldWidget, LineBoldWidgetNew,
              LineSeeHere, LineMoreInfo, LineBlank, LineDelimiter}
      [] name = "BUSINESS" ->
             {LineFundingUpdate, LineDashes12, LineSeeHereShort,
              LineSeeHere, LineBulletRaised, LineAcme, LineBlank}
      [] name = "TECHNOLOGY" ->
             {LineModels, LineHashes, LineBulletDemo,
              LineTool, LineSeeHere, LineDashes4, LineBlank}
      [] name = "RESEARCH" ->
             {LinePaperOfTheDay, LineGreatPaper, LineAuthors,
              LineNotableResearch, LineDashes4, LineBulletModelX, LineSeeHere, LineSurvey}

\* The texts of at most n lines, each one of the lines.
Texts(lines, n) == UNION {[1..k -> lines] : k \in 0..n}

-----------------------------------------------------------------------------
(* The program: one call of parse_section_items, line by line *)

InitParse ==
    /\ parse_name \in SectionNames
    /\ parse_lines \in Texts(SectionLines(parse_name), MaxLines) \ {<<>>}
    /\ parse_state = IF parse_name \in CategorizedSections
                     THEN CatInit(parse_name) ELSE SimpleInit
    /\ parse_result = <<>>
    /\ pc = "lines"
    /\ exception = "none"
    /\ folder_name = <<>>
    /\ md_files = <<>>
    /\ file_contents = <<>>
    /\ current_year = MergeYear
    /\ start_date = NoDate
    /\ end_date = NoDate
    /\ year = 0
    /\ file_dates = <<>>
    /\ sorted_files = <<>>
    /\ parsed_files = <<>>
    /\ json_data = <<>>
    /\ section_index = 0
    /\ file_index = 0
    /\ run = 1
    /\ first_output = <<>>
    /\ tasks = <<>>
    /\ last_parser = <<>>
    /\ parallel_output = <<>>
    /\ retry_function = "None"
    /\ retry_text = <<>>
    /\ retry_attempt = 0
    /\ retry_calls = 0
    /\ retry_failures = 0
    /\ retry_waits = <<>>
    /\ retry_returned = <<>>
    /\ split_lines = <<>>
    /\ split_state = <<>>
    /\ split_index = 0
    /\ classify_text = <<>>
    /\ classify_section = "None"
    /\ classify_result = "None"
    /\ parse_iterations = 0

\* What a call leaves alone.
otherVars ==
    <<inputVars, orderVars, sorted_files, mergeVars, runVars, parse_name,
      parse_lines>>

\* Lines 121-193: one iteration of the loop of parse_simple_section.
SimpleLine ==
    /\ pc = "lines"
    /\ parse_name \notin CategorizedSections
    /\ parse_state.i <= Len(parse_lines)
    /\ parse_state' = SimpleStep(parse_lines, parse_name, parse_state)
    /\ UNCHANGED <<pc, exception, parse_result, otherVars>>
    /\ UNCHANGED parallelVars
    /\ UNCHANGED retryVars
    /\ UNCHANGED splitVars
    /\ UNCHANGED classifyVars
    /\ parse_iterations' = parse_iterations + 1

\* Lines 195-224: the loop is over; the last item is added and the items are
\* cleaned and returned.
SimpleReturn ==
    /\ pc = "lines"
    /\ parse_name \notin CategorizedSections
    /\ parse_state.i > Len(parse_lines)
    /\ parse_result' = clean_items(FlushSimple(parse_state))
    /\ pc' = "returned"
    /\ UNCHANGED <<exception, parse_state, otherVars>>
    /\ UNCHANGED parallelVars
    /\ UNCHANGED retryVars
    /\ UNCHANGED splitVars
    /\ UNCHANGED classifyVars
    /\ UNCHANGED loopVars

\* Lines 259-519: one iteration of the loop of parse_categorized_section.
\* A list method called on a single item raises AttributeError.
CatLine ==
    /\ pc = "lines"
    /\ parse_name \in CategorizedSections
    /\ parse_state.i <= Len(parse_lines)
    /\ parse_state' = CatStep(parse_lines, parse_name, parse_state)
    /\ IF parse_state'.raised
       THEN pc' = "raised" /\ exception' = "AttributeError"
       ELSE UNCHANGED <<pc, exception>>
    /\ UNCHANGED <<parse_result, otherVars>>
    /\ UNCHANGED parallelVars
    /\ UNCHANGED retryVars
    /\ UNCHANGED splitVars
    /\ UNCHANGED classifyVars
    /\ parse_iterations' = parse_iterations + 1

\* Lines 521-552: the loop is over; the last item is added and each
\* subcategory's items are cleaned and returned. clean_items on a single
\* item raises AttributeError.
CatReturn ==
    /\ pc = "lines"
    /\ parse_name \in CategorizedSections
    /\ parse_state.i > Len(parse_lines)
    /\ LET st == SavePrevious(parse_state)
       IN  /\ parse_state' = st
           /\ IF st.raised \/ st.single # {}
              THEN /\ pc' = "raised"
                   /\ exception' = "AttributeError"
                   /\ UNCHANGED parse_result
              ELSE /\ pc' = "returned"
                   /\ parse_result' =
                          [name \in SubcategorySet(parse_name) |->
                              clean_items(st.result[name])]
                   /\ UNCHANGED exception
    /\ UNCHANGED otherVars
    /\ UNCHANGED parallelVars
    /\ UNCHANGED retryVars
    /\ UNCHANGED splitVars
    /\ UNCHANGED classifyVars
    /\ UNCHANGED loopVars

NextParse ==
    \/ SimpleLine
    \/ SimpleReturn
    \/ CatLine
    \/ CatReturn

SpecParse == InitParse /\ [][NextParse]_vars

-----------------------------------------------------------------------------
(* The merge loops as one function, and documents parsed side by side *)

\* Lines 725-735: the parsed items of a section extend what the JSON holds.
ExtendSection(json, section_name, section_data) ==
    IF section_name \in {"HIGHLIGHTS", "PRODUCTS"}
    THEN [json EXCEPT ![section_name] = @ \o section_data]
    ELSE [json EXCEPT ![section_name] = ExtendSubcategories(@, section_data)]

\* Lines 719-735: the two loops, from section s and file f on, over the files
\* in the given order.
RECURSIVE MergeAll(_, _, _, _, _)
MergeAll(json, order, contents, s, f) ==
    IF s > Len(TargetSections) THEN json
    ELSE IF f > Len(order) THEN MergeAll(json, order, contents, s + 1, 1)
    ELSE MergeAll(
             MergeSection(json, TargetSections[s],
                 parse_markdown_file(contents[order[f]])[TargetSections[s]]),
             order, contents, s, f + 1)

\* A paper of the day.
DocPaper == <<
    \* 'RESEARCH'
    <<"R","E","S","E","A","R","C","H">>,
    \* 'Paper of the Day'
    <<"P","a","p","e","r"," ","o","f"," ","t","h","e"," ","D","a","y">>,
    \* '[Great Paper](http://a) (2025-07-06)'
    <<"[","G","r","e","a","t"," ","P","a","p","e","r","]","(","h","t","t","p",":","/","/","a",")"," ","(","2","0","2","5","-","0","7","-","0","6",")">> >>

\* A highlight and a research bullet.
DocBullets == <<
    \* 'HIGHLIGHTS'
    <<"H","I","G","H","L","I","G","H","T","S">>,
    \* '• Model X launched'
    <<"U+2022"," ","M","o","d","e","l"," ","X"," ","l","a","u","n","c","h","e","d">>,
    \* 'RESEARCH'
    <<"R","E","S","E","A","R","C","H">>,
    \* '• Model X launched'
    <<"U+2022"," ","M","o","d","e","l"," ","X"," ","l","a","u","n","c","h","e","d">> >>

\* Scenario B in a document.
DocFunding == <<
    \* 'BUSINESS'
    <<"B","U","S","I","N","E","S","S">>,
    \* 'Funding Update'
    <<"F","u","n","d","i","n","g"," ","U","p","d","a","t","e">>,
    \* '------------'
    <<"-","-","-","-","-","-","-","-","-","-","-","-">>,
    \* 'See [here](https://x.com)'
    <<"S","e","e"," ","[","h","e","r","e","]","(","h","t","t","p","s",":","/","/","x",".","c","o","m",")">> >>

SmallDocs == {DocPaper, DocBullets, DocFunding}

\* The parse of a document that has not begun.
NewTask ==
    [phase |-> "new", sections |-> <<>>, section_index |-> 0,
     state |-> <<>>, results |-> <<>>]

\* The first section from the k-th on whose text is not empty (line 721);
\* one past the last section when there is none.
RECURSIVE NextSection(_, _)
NextSection(sections, k) ==
    IF k > Len(TargetSections) THEN k
    ELSE IF HasText(sections[TargetSections[k]]) THEN k
    ELSE NextSection(sections, k + 1)

\* The variables of the parser of a section before the first line.
ParserInit(section_name) ==
    IF section_name \in CategorizedSections THEN CatInit(section_name)
    ELSE SimpleInit

\* One iteration of the loop of the parser of a section.
ParserStep(lines, section_name, st) ==
    IF section_name \in CategorizedSections THEN CatStep(lines, section_name, st)
    ELSE SimpleStep(lines, section_name, st)

\* What the parser of a section returns after its loop.
ParserReturn(section_name, st) ==
    IF section_name \in CategorizedSections
    THEN [name \in SubcategorySet(section_name) |->
             clean_items(SavePrevious(st).result[name])]
    ELSE clean_items(FlushSimple(st))

\* The results with the items of one more section.
WithResult(results, section_name, section_data) ==
    [name \in DOMAIN results \cup {section_name} |->
        IF name = section_name THEN section_data ELSE results[name]]

\* Lines 719-735 on results that are already there: the two loops, from
\* section s and file f on, over the files in the given order.
RECURSIVE MergeResults(_, _, _, _, _)
MergeResults(json, order, done, s, f) ==
    IF s > Len(TargetSections) THEN json
    ELSE IF f > Len(order) THEN MergeResults(json, order, done, s + 1, 1)
    ELSE MergeResults(
             IF TargetSections[s] \in DOMAIN done[order[f]].results
             THEN ExtendSection(json, TargetSections[s],
                      done[order[f]].results[TargetSections[s]])
             ELSE json,
             order, done, s, f + 1)

\* The program before its first step, with a parse that has not begun for
\* every file of the folder.
InitParallel ==
    /\ folder_name \in MergeFolders
    /\ md_files \in Listings(DocNames, MaxDocs)
    /\ file_contents \in [NamesOf(md_files) -> SmallDocs]
    /\ current_year = MergeYear
    /\ tasks = [file \in NamesOf(md_files) |-> NewTask]
    /\ last_parser = <<>>
    /\ parallel_output = <<>>
    /\ pc = "start"
    /\ exception = "none"
    /\ start_date = NoDate
    /\ end_date = NoDate
    /\ year = 0
    /\ file_dates = <<>>
    /\ sorted_files = <<>>
    /\ parsed_files = <<>>
    /\ json_data = <<>>
    /\ section_index = 0
    /\ file_index = 0
    /\ run = 1
    /\ first_output = <<>>
    /\ parse_name = "None"
    /\ parse_lines = <<>>
    /\ parse_state = <<>>
    /\ parse_result = <<>>
    /\ retry_function = "None"
    /\ retry_text = <<>>
    /\ retry_attempt = 0
    /\ retry_calls = 0
    /\ retry_failures = 0
    /\ retry_waits = <<>>
    /\ retry_returned = <<>>
    /\ split_lines = <<>>
    /\ split_state = <<>>
    /\ split_index = 0
    /\ classify_text = <<>>
    /\ classify_section = "None"
    /\ classify_result = "None"
    /\ parse_iterations = 0

\* What parsing side by side leaves alone.
restVars ==
    <<inputVars, orderVars, mergeVars, runVars, parseVars>>

\* Lines 690-693 and 609-664: a file of the sorted list is read and split
\* into its sections. No file is read before line 686 has sorted the list.
TaskSplit(file) ==
    /\ pc = "parse"
    /\ tasks[file].phase = "new"
    /\ tasks' = [tasks EXCEPT ![file] =
                     [@ EXCEPT !.phase = "between",
                               !.sections = parse_markdown_file(file_contents[file]),
                               !.section_index = 1]]
    /\ UNCHANGED <<pc, exception, sorted_files, last_parser, parallel_output,
                   restVars>>
    /\ UNCHANGED retryVars
    /\ UNCHANGED splitVars
    /\ UNCHANGED classifyVars
    /\ UNCHANGED loopVars

\* Lines 721-723 and 114-120, 248-258: the next section of the file that has
\* text is given to its parser, which sets its variables; a file without
\* one is finished.
TaskBegin(file) ==
    /\ pc = "parse"
    /\ tasks[file].phase = "between"
    /\ LET k == NextSection(tasks[file].sections, tasks[file].section_index)
       IN  tasks' = [tasks EXCEPT ![file] =
                        IF k > Len(TargetSections)
                        THEN [@ EXCEPT !.phase = "done", !.section_index = k]
                        ELSE [@ EXCEPT !.phase = "lines", !.section_index = k,
                                       !.state = ParserInit(TargetSections[k])]]
    /\ UNCHANGED <<pc, exception, sorted_files, last_parser, parallel_output,
                   restVars>>
    /\ UNCHANGED retryVars
    /\ UNCHANGED splitVars
    /\ UNCHANGED classifyVars
    /\ UNCHANGED loopVars

\* Lines 121-193, 259-519: the parser of the file's section reads a line.
\* In a categorized section a list method called on a single item raises
\* AttributeError, which nothing catches.
TaskLine(file) ==
    /\ pc = "parse"
    /\ tasks[file].phase = "lines"
    /\ LET task == tasks[file]
           name == TargetSections[task.section_index]
       IN  /\ task.state.i <= Len(task.sections[name])
           /\ tasks' = [tasks EXCEPT ![file].state =
                            ParserStep(task.sections[name], name, @)]
           /\ IF name \in CategorizedSections /\ tasks'[file].state.raised
              THEN pc' = "raised" /\ exception' = "AttributeError"
              ELSE UNCHANGED <<pc, exception>>
    /\ last_parser' = tasks'[file].state
    /\ UNCHANGED <<sorted_files, parallel_output, restVars>>
    /\ UNCHANGED retryVars
    /\ UNCHANGED splitVars
    /\ UNCHANGED classifyVars
    /\ UNCHANGED loopVars

\* Lines 195-224, 521-552: the parser of the file's section returns. In a
\* categorized section clean_items on a single item raises AttributeError.
TaskReturn(file) ==
    /\ pc = "parse"
    /\ tasks[file].phase = "lines"
    /\ LET task == tasks[file]
           name == TargetSections[task.section_index]
       IN  /\ task.state.i > Len(task.sections[name])
           /\ IF /\ name \in CategorizedSections
                 /\ \/ SavePrevious(task.state).raised
                    \/ SavePrevious(task.state).single # {}
              THEN /\ pc' = "raised"
                   /\ exception' = "AttributeError"
                   /\ UNCHANGED tasks
              ELSE /\ tasks' = [tasks EXCEPT ![file] =
                                    [@ EXCEPT !.phase = "between",
                                              !.section_index = @ + 1,
                                              !.state = <<>>,
                                              !.results = WithResult(@, name,
                                                  ParserReturn(name, task.state))]]
                   /\ UNCHANGED <<pc, exception>>
    /\ UNCHANGED <<sorted_files, last_parser, parallel_output, restVars>>
    /\ UNCHANGED retryVars
    /\ UNCHANGED splitVars
    /\ UNCHANGED classifyVars
    /\ UNCHANGED loopVars

\* Lines 696-735: every file is parsed; the results are merged in the order
\* line 686 has put the files in.
MergeTasks ==
    /\ pc = "parse"
    /\ \A file \in DOMAIN tasks : tasks[file].phase = "done"
    /\ parallel_output' = MergeResults(JsonInit, sorted_files, tasks, 1, 1)
    /\ pc' = "merged"
    /\ UNCHANGED <<exception, sorted_files, tasks, last_parser, restVars>>
    /\ UNCHANGED retryVars
    /\ UNCHANGED splitVars
    /\ UNCHANGED classifyVars
    /\ UNCHANGED loopVars

\* The program up to line 689 as it is (nothing to merge, the sort, the sort
\* raising); from there on the files' parses side by side, and the merge.
NextParallel ==
    \/ NoFiles
    \/ SortFiles
    \/ SortFilesRaise
    \/ \E file \in DOMAIN tasks : TaskSplit(file)
    \/ \E file \in DOMAIN tasks : TaskBegin(file)
    \/ \E file \in DOMAIN tasks : TaskLine(file)
    \/ \E file \in DOMAIN tasks : TaskReturn(file)
    \/ MergeTasks

SpecParallel == InitParallel /\ [][NextParallel]_vars

-----------------------------------------------------------------------------
(* The text-transform calls: translate_text_async and clean_text_async *)

\* translate_json_to_chinese.py line 36, polish_json_content.py line 149:
\* the default of max_retries, which every caller leaves as it is.
max_retries == 3

\* translate_json_to_chinese.py line 36: the default of retry_delay;
\* polish_json_content.py line 193 has the same factor written out.
retry_delay == 1

TransformFunctions == {"translate_text_async", "clean_text_async"}

\* translate_json_to_chinese.py line 42, polish_json_content.py line 155: the
\* length under which a stripped text is returned as it is.
MinLength(function) ==
    IF function = "translate_text_async" THEN 10 ELSE 20

\* translate_json_to_chinese.py lines 38-43, polish_json_content.py lines
\* 151-156: the text is returned without a call.
SkipsCall(function, text) ==
    \/ text = <<>>
    \/ Strip(text) = <<>>
    \/ Len(Strip(text)) < MinLength(function)

\* 2 ** attempt
RECURSIVE Pow2(_)
Pow2(attempt) == IF attempt = 0 THEN 1 ELSE 2 * Pow2(attempt - 1)

\* translate_json_to_chinese.py line 96, polish_json_content.py line 193.
WaitTime(attempt) == retry_delay * Pow2(attempt)

\* The condition of lines 94 and 192 fails if attempts were counted one
\* further.
IsLastAttempt_OneMore(attempt) == ~(attempt < max_retries)

\* translate_json_to_chinese.py line 94, polish_json_content.py line 192:
\* the else branch is taken, there is no wait and the input is returned.
IsLastAttempt(attempt) == ~(attempt < max_retries - 1)

\* translate_json_to_chinese.py lines 58 and 85-89, polish_json_content.py
\* lines 171 and 184-187: the stripped text of the response, or the input
\* when that is empty.
Transformed(text, response) ==
    IF Strip(response) # <<>> THEN Strip(response) ELSE text

\* ''
TextEmpty == <<>>

\* '   '
TextSpaces == <<" "," "," ">>

\* 'GPT-5'
TextShort == <<"G","P","T","-","5">>

\* '  GPT-5 is out     '
TextPadded == <<" "," ","G","P","T","-","5"," ","i","s"," ","o","u","t"," "," "," "," "," ">>

\* 'Model X launched'
TextTitle == <<"M","o","d","e","l"," ","X"," ","l","a","u","n","c","h","e","d">>

\* 'OpenAI released a new model today'
TextSentence == <<"O","p","e","n","A","I"," ","r","e","l","e","a","s","e","d"," ","a"," ","n","e","w"," ","m","o","d","e","l"," ","t","o","d","a","y">>

\* 'Model X 2': 9 characters
TextNine == <<"M","o","d","e","l"," ","X"," ","2">>

\* 'Model X 10': 10 characters
TextTen == <<"M","o","d","e","l"," ","X"," ","1","0">>

\* 'Model X launched 19': 19 characters
TextNineteen == <<"M","o","d","e","l"," ","X"," ","l","a","u","n","c","h","e","d"," ","1","9">>

\* 'Model X launched now': 20 characters
TextTwenty == <<"M","o","d","e","l"," ","X"," ","l","a","u","n","c","h","e","d"," ","n","o","w">>

\* 'OK'
ResponseShort == <<"O","K">>

\* ''
ResponseEmpty == <<>>

\* '  '
ResponseSpaces == <<" "," ">>

\* ' Model X was launched '
ResponseText == <<" ","M","o","d","e","l"," ","X"," ","w","a","s"," ","l","a","u","n","c","h","e","d"," ">>

InputTexts ==
    {TextEmpty, TextSpaces, TextShort, TextPadded, TextTitle, TextSentence,
     TextNine, TextTen, TextNineteen, TextTwenty}

Responses == {ResponseEmpty, ResponseSpaces, ResponseText, ResponseShort}

InitRetry ==
    /\ retry_function \in TransformFunctions
    /\ retry_text \in InputTexts
    /\ retry_attempt = 0
    /\ retry_calls = 0
    /\ retry_failures = 0
    /\ retry_waits = <<>>
    /\ retry_returned = <<>>
    /\ pc = "transform"
    /\ exception = "none"
    /\ folder_name = <<>>
    /\ md_files = <<>>
    /\ file_contents = <<>>
    /\ current_year = MergeYear
    /\ start_date = NoDate
    /\ end_date = NoDate
    /\ year = 0
    /\ file_dates = <<>>
    /\ sorted_files = <<>>
    /\ parsed_files = <<>>
    /\ json_data = <<>>
    /\ section_index = 0
    /\ file_index = 0
    /\ run = 1
    /\ first_output = <<>>
    /\ parse_name = "None"
    /\ parse_lines = <<>>
    /\ parse_state = <<>>
    /\ parse_result = <<>>
    /\ tasks = <<>>
    /\ last_parser = <<>>
    /\ parallel_output = <<>>
    /\ split_lines = <<>>
    /\ split_state = <<>>
    /\ split_index = 0
    /\ classify_text = <<>>
    /\ classify_section = "None"
    /\ classify_result = "None"
    /\ parse_iterations = 0

\* What a text-transform call leaves alone.
untouchedVars ==
    <<inputVars, orderVars, sorted_files, exception, mergeVars, runVars,
      parseVars, parallelVars, retry_function, retry_text>>

\* translate_json_to_chinese.py lines 38-43, polish_json_content.py lines
\* 151-156: an empty, blank or short text is returned as it is.
ReturnUnchanged ==
    /\ pc = "transform"
    /\ SkipsCall(retry_function, retry_text)
    /\ retry_returned' = retry_text
    /\ pc' = "returned"
    /\ UNCHANGED <<retry_attempt, retry_calls, retry_failures, retry_waits,
                   untouchedVars>>
    /\ UNCHANGED splitVars
    /\ UNCHANGED classifyVars
    /\ UNCHANGED loopVars

\* translate_json_to_chinese.py lines 45-47, polish_json_content.py lines
\* 158-160: the loop over the attempts begins.
EnterLoop ==
    /\ pc = "transform"
    /\ ~SkipsCall(retry_function, retry_text)
    /\ pc' = IF 0 < max_retries THEN "attempt" ELSE "returned"
    /\ retry_returned' = IF 0 < max_retries THEN retry_returned ELSE retry_text
    /\ UNCHANGED <<retry_attempt, retry_calls, retry_failures, retry_waits,
                   untouchedVars>>
    /\ UNCHANGED splitVars
    /\ UNCHANGED classifyVars
    /\ UNCHANGED loopVars

\* translate_json_to_chinese.py lines 49-89, polish_json_content.py lines
\* 162-187: the service answers; the stripped answer is returned, or the
\* input when the answer is empty.
CallSucceeds(response) ==
    /\ pc = "attempt"
    /\ retry_calls' = retry_calls + 1
    /\ retry_returned' = Transformed(retry_text, response)
    /\ pc' = "returned"
    /\ UNCHANGED <<retry_attempt, retry_failures, retry_waits, untouchedVars>>
    /\ UNCHANGED splitVars
    /\ UNCHANGED classifyVars
    /\ UNCHANGED loopVars

\* translate_json_to_chinese.py lines 91-95, polish_json_content.py lines
\* 190-192: the call raises before the last attempt; a wait is due.
CallFails ==
    /\ pc = "attempt"
    /\ ~IsLastAttempt(retry_attempt)
    /\ retry_calls' = retry_calls + 1
    /\ retry_failures' = retry_failures + 1
    /\ pc' = "wait"
    /\ UNCHANGED <<retry_attempt, retry_waits, retry_returned, untouchedVars>>
    /\ UNCHANGED splitVars
    /\ UNCHANGED classifyVars
    /\ UNCHANGED loopVars

\* translate_json_to_chinese.py lines 99-101, polish_json_content.py lines
\* 194-195: the call raises on the last attempt; the input is returned.
LastCallFails ==
    /\ pc = "attempt"
    /\ IsLastAttempt(retry_attempt)
    /\ retry_calls' = retry_calls + 1
    /\ retry_failures' = retry_failures + 1
    /\ retry_returned' = retry_text
    /\ pc' = "returned"
    /\ UNCHANGED <<retry_attempt, retry_waits, untouchedVars>>
    /\ UNCHANGED splitVars
    /\ UNCHANGED classifyVars
    /\ UNCHANGED loopVars

\* translate_json_to_chinese.py lines 96-98, polish_json_content.py line
\* 193: asyncio.sleep, then the next iteration of the loop; the function
\* returns its input when the loop ends (lines 103, 197).
Wait ==
    /\ pc = "wait"
    /\ retry_waits' = Append(retry_waits, WaitTime(retry_attempt))
    /\ retry_attempt' = retry_attempt + 1
    /\ pc' = IF retry_attempt + 1 < max_retries THEN "attempt" ELSE "returned"
    /\ retry_returned' =
           IF retry_attempt + 1 < max_retries THEN retry_returned ELSE retry_text
    /\ UNCHANGED <<retry_calls, retry_failures, untouchedVars>>
    /\ UNCHANGED splitVars
    /\ UNCHANGED classifyVars
    /\ UNCHANGED loopVars

NextRetry ==
    \/ ReturnUnchanged
    \/ EnterLoop
    \/ \E response \in Responses : CallSucceeds(response)
    \/ CallFails
    \/ LastCallFails
    \/ Wait

SpecRetry == InitRetry /\ [][NextRetry]_vars

-----------------------------------------------------------------------------
(* parse_markdown_file line by line *)

MaxDocLines == 4

\* 'HIGHLIGHTS'
DocLineHighlights == <<"H","I","G","H","L","I","G","H","T","S">>

\* '\tRESEARCH ': a tab, the name, a space
DocLineResearch == <<"\t","R","E","S","E","A","R","C","H"," ">>

\* '-----'
DocLineDashes == <<"-","-","-","-","-">>

\* '* * *'
DocLineSeparator == <<"*"," ","*"," ","*">>

\* '• Model X launched'
DocLineBullet == <<"U+2022"," ","M","o","d","e","l"," ","X"," ","l","a","u","n","c","h","e","d">>

\* 'LOOKING AHEAD: next week'
DocLineLookingAhead == <<"L","O","O","K","I","N","G"," ","A","H","E","A","D",":"," ","n","e","x","t"," ","w","e","e","k">>

\* ''
DocLineBlank == <<>>

DocLines ==
    {DocLineHighlights, DocLineResearch, DocLineDashes, DocLineSeparator,
     DocLineBullet, DocLineLookingAhead, DocLineBlank}

\* line.strip().startswith('LOOKING AHEAD') (line 650).
IsTerminalMarker(line) ==
    StartsWith(Strip(line),
               <<"L","O","O","K","I","N","G"," ","A","H","E","A","D">>)

\* The loop if break did not leave it.
SplitStopped_Never(st) == FALSE

\* Line 654: break has left the loop.
SplitStopped(st) == st.stopped

InitSplit ==
    /\ split_lines \in Texts(DocLines, MaxDocLines) \ {<<>>}
    /\ split_state = SplitInit
    /\ split_index = 1
    /\ pc = "split"
    /\ exception = "none"
    /\ folder_name = <<>>
    /\ md_files = <<>>
    /\ file_contents = <<>>
    /\ current_year = MergeYear
    /\ start_date = NoDate
    /\ end_date = NoDate
    /\ year = 0
    /\ file_dates = <<>>
    /\ sorted_files = <<>>
    /\ parsed_files = <<>>
    /\ json_data = <<>>
    /\ section_index = 0
    /\ file_index = 0
    /\ run = 1
    /\ first_output = <<>>
    /\ parse_name = "None"
    /\ parse_lines = <<>>
    /\ parse_state = <<>>
    /\ parse_result = <<>>
    /\ tasks = <<>>
    /\ last_parser = <<>>
    /\ parallel_output = <<>>
    /\ retry_function = "None"
    /\ retry_text = <<>>
    /\ retry_attempt = 0
    /\ retry_calls = 0
    /\ retry_failures = 0
    /\ retry_waits = <<>>
    /\ retry_returned = <<>>
    /\ classify_text = <<>>
    /\ classify_section = "None"
    /\ classify_result = "None"
    /\ parse_iterations = 0

\* What the splitter leaves alone.
outsideVars ==
    <<inputVars, orderVars, sorted_files, exception, mergeVars, runVars,
      parseVars, parallelVars, retryVars, split_lines>>

\* Lines 631-660: one iteration of the loop over the lines.
SplitLine ==
    /\ pc = "split"
    /\ split_index <= Len(split_lines)
    /\ ~SplitStopped(split_state)
    /\ split_state' = SplitStep(split_state, split_lines[split_index])
    /\ split_index' = split_index + 1
    /\ UNCHANGED <<pc, outsideVars>>
    /\ UNCHANGED classifyVars
    /\ UNCHANGED loopVars

\* Lines 662-670: after the loop the open section is stored and the
\* sections are returned.
SplitReturn ==
    /\ pc = "split"
    /\ split_index > Len(split_lines) \/ SplitStopped(split_state)
    /\ split_state' = [split_state EXCEPT !.sections = SaveSection(split_state)]
    /\ pc' = "split_done"
    /\ UNCHANGED <<split_index, outsideVars>>
    /\ UNCHANGED classifyVars
    /\ UNCHANGED loopVars

NextSplit ==
    \/ SplitLine
    \/ SplitReturn

SpecSplit == InitSplit /\ [][NextSplit]_vars

-----------------------------------------------------------------------------
(* The categorized sections line by line, on headers, items and bullets *)

MaxCatLines == 4

\* '### Funding & Investment'
LineHashFunding ==
    <<"#","#","#"," ","F","u","n","d","i","n","g"," ","&"," ","I","n","v","e","s","t","m","e","n","t">>

\* 'Regulatory Developments'
LineRegulatory ==
    <<"R","e","g","u","l","a","t","o","r","y"," ","D","e","v","e","l","o","p","m","e","n","t","s">>

\* 'Market Analysis'
LineMarketAnalysis ==
    <<"M","a","r","k","e","t"," ","A","n","a","l","y","s","i","s">>

\* 'M&A and Partnerships'
LineMergers ==
    <<"M","&","A"," ","a","n","d"," ","P","a","r","t","n","e","r","s","h","i","p","s">>

\* '--------'
LineDashes8 ==
    <<"-","-","-","-","-","-","-","-">>

\* '**Acme** announces [deal](http://c)'
LineAcmeDeal ==
    <<"*","*","A","c","m","e","*","*"," ","a","n","n","o","u","n","c","e","s"," ","[","d","e","a","l","]","(","h","t","t","p",":","/","/","c",")">>

\* '### Acme [A](http://a)'
LineHashAcme ==
    <<"#","#","#"," ","A","c","m","e"," ","[","A","]","(","h","t","t","p",":","/","/","a",")">>

\* '# Market Trends'
LineOneHashMarket ==
    <<"#"," ","M","a","r","k","e","t"," ","T","r","e","n","d","s">>

\* '### Models & Datasets'
LineHashModelsDatasets ==
    <<"#","#","#"," ","M","o","d","e","l","s"," ","&"," ","D","a","t","a","s","e","t","s">>

\* '# Models'
LineOneHashModels ==
    <<"#"," ","M","o","d","e","l","s">>

\* 'Open Source Projects'
LineOpenSource ==
    <<"O","p","e","n"," ","S","o","u","r","c","e"," ","P","r","o","j","e","c","t","s">>

\* '**Kit** a [demo](http://d)'
LineKitDemo ==
    <<"*","*","K","i","t","*","*"," ","a"," ","[","d","e","m","o","]","(","h","t","t","p",":","/","/","d",")">>

\* '## Spaces'
LineSpaces ==
    <<"#","#"," ","S","p","a","c","e","s">>

\* '[Survey](http://s) of agents'
LineSurveyOfAgents ==
    <<"[","S","u","r","v","e","y","]","(","h","t","t","p",":","/","/","s",")"," ","o","f"," ","a","g","e","n","t","s">>

\* '### Paper of the Week'
LineHashPaperOfTheWeek ==
    <<"#","#","#"," ","P","a","p","e","r"," ","o","f"," ","t","h","e"," ","W","e","e","k">>

\* '**Study** on [agents](http://g)'
LineStudy ==
    <<"*","*","S","t","u","d","y","*","*"," ","o","n"," ","[","a","g","e","n","t","s","]","(","h","t","t","p",":","/","/","g",")">>

\* The lines the texts of a categorized section are made of: one set for
\* the headers and their underlines, one for the items and the bullets.
CategorizedLines(name) ==
    CASE name = "BUSINESS" ->
             {{LineHashFunding, LineRegulatory, LineMarketAnalysis, LineMergers,
               LineDashes8, LineDashes4, LineBulletRaised},
              {LineFundingUpdate, LineDashes12, LineDashes8, LineAcmeDeal,
               LineHashAcme, LineBulletRaised, LineOneHashMarket}}
      [] name = "TECHNOLOGY" ->
             {{LineModels, LineHashModelsDatasets, LineOneHashModels,
               LineOpenSource, LineDashes8, LineDashes4, LineBulletDemo},
              {LineTool, LineKitDemo, LineBulletDemo, LineStarModelY,
               LineSeeHere, LineSpaces, LineHashes}}
      [] name = "RESEARCH" ->
             {{LinePaperOfTheDay, LineGreatPaper, LineNotableResearch,
               LineDashes4, LineSurveyOfAgents, LineAuthors,
               LineHashPaperOfTheWeek},
              {LineSurvey, LineBulletModelX, LineStudy, LineGreatPaper,
               LineNotableResearch, LineHashPaperOfTheWeek, LinePaperOfTheDay}}

InitCategorized ==
    /\ parse_name \in CategorizedSections
    /\ \E lines \in CategorizedLines(parse_name) :
           parse_lines \in Texts(lines, MaxCatLines) \ {<<>>}
    /\ parse_state = CatInit(parse_name)
    /\ parse_result = <<>>
    /\ pc = "lines"
    /\ exception = "none"
    /\ folder_name = <<>>
    /\ md_files = <<>>
    /\ file_contents = <<>>
    /\ current_year = MergeYear
    /\ start_date = NoDate
    /\ end_date = NoDate
    /\ year = 0
    /\ file_dates = <<>>
    /\ sorted_files = <<>>
    /\ parsed_files = <<>>
    /\ json_data = <<>>
    /\ section_index = 0
    /\ file_index = 0
    /\ run = 1
    /\ first_output = <<>>
    /\ tasks = <<>>
    /\ last_parser = <<>>
    /\ parallel_output = <<>>
    /\ retry_function = "None"
    /\ retry_text = <<>>
    /\ retry_attempt = 0
    /\ retry_calls = 0
    /\ retry_failures = 0
    /\ retry_waits = <<>>
    /\ retry_returned = <<>>
    /\ split_lines = <<>>
    /\ split_state = <<>>
    /\ split_index = 0
    /\ classify_text = <<>>
    /\ classify_section = "None"
    /\ classify_result = "None"
    /\ parse_iterations = 0

NextCategorized ==
    \/ CatLine
    \/ CatReturn

SpecCategorized == InitCategorized /\ [][NextCategorized]_vars

-----------------------------------------------------------------------------
(* One call of detect_subcategory *)

\* The texts handed to the classifier are made of at most this many words.
MaxWords == 2

\* 'Raised'
WordRaised == <<"R","a","i","s","e","d">>

\* 'CEO'
WordCeo == <<"C","E","O">>

\* 'legal'
WordLegal == <<"l","e","g","a","l">>

\* 'Market'
WordMarket == <<"M","a","r","k","e","t">>

\* 'GitHub'
WordGitHub == <<"G","i","t","H","u","b">>

\* 'Model'
WordModel == <<"M","o","d","e","l">>

\* 'demo'
WordDemo == <<"d","e","m","o">>

\* 'Paper of the Week'
WordPaperOfTheWeek == <<"P","a","p","e","r"," ","o","f"," ","t","h","e"," ","W","e","e","k">>

\* 'Research'
WordResearch == <<"R","e","s","e","a","r","c","h">>

\* 'Acme'
WordAcme == <<"A","c","m","e">>

\* 'marKet' with the Kelvin sign, U+212A, for its k
WordKelvinMarket == <<"m","a","r","U+212A","e","t">>

ClassifyWords ==
    {WordRaised, WordCeo, WordLegal, WordMarket, WordGitHub, WordModel, WordDemo,
     WordPaperOfTheWeek, WordResearch, WordAcme, WordKelvinMarket}

\* ' '.join(words)
RECURSIVE JoinWords(_)
JoinWords(words) ==
    IF words = <<>> THEN <<>>
    ELSE IF Len(words) = 1 THEN words[1]
    ELSE words[1] \o <<" ">> \o JoinWords(Tail(words))

\* The texts of at most MaxWords words; the empty text is the text of a
\* bullet line that is a marker only.
ClassifyTexts == {JoinWords(words) : words \in Texts(ClassifyWords, MaxWords)}

InitClassify ==
    /\ classify_text \in ClassifyTexts
    /\ classify_section \in CategorizedSections
    /\ classify_result = "None"
    /\ pc = "classify"
    /\ exception = "none"
    /\ folder_name = <<>>
    /\ md_files = <<>>
    /\ file_contents = <<>>
    /\ current_year = MergeYear
    /\ start_date = NoDate
    /\ end_date = NoDate
    /\ year = 0
    /\ file_dates = <<>>
    /\ sorted_files = <<>>
    /\ parsed_files = <<>>
    /\ json_data = <<>>
    /\ section_index = 0
    /\ file_index = 0
    /\ run = 1
    /\ first_output = <<>>
    /\ parse_name = "None"
    /\ parse_lines = <<>>
    /\ parse_state = <<>>
    /\ parse_result = <<>>
    /\ tasks = <<>>
    /\ last_parser = <<>>
    /\ parallel_output = <<>>
    /\ retry_function = "None"
    /\ retry_text = <<>>
    /\ retry_attempt = 0
    /\ retry_calls = 0
    /\ retry_failures = 0
    /\ retry_waits = <<>>
    /\ retry_returned = <<>>
    /\ split_lines = <<>>
    /\ split_state = <<>>
    /\ split_index = 0
    /\ parse_iterations = 0

\* Lines 554-571: the call returns a subcategory.
Classify ==
    /\ pc = "classify"
    /\ classify_result' = detect_subcategory(classify_text, classify_section)
    /\ pc' = "classified"
    /\ UNCHANGED <<classify_text, classify_section, exception>>
    /\ UNCHANGED <<inputVars, orderVars, sorted_files, mergeVars, runVars>>
    /\ UNCHANGED parseVars
    /\ UNCHANGED parallelVars
    /\ UNCHANGED retryVars
    /\ UNCHANGED splitVars
    /\ UNCHANGED loopVars

NextClassify == Classify

SpecClassify == InitClassify /\ [][NextClassify]_vars

-----------------------------------------------------------------------------
(* The date range resolver and the file ordering: properties *)

\* The resolver returned a range for the batch identifier.
RangeResolved == pc \in {"extract", "sorted"} /\ start_date # NoDate

\* The position of a file name in a list of distinct names (0: not there).
IndexIn(list, f) ==
    IF \E j \in 1..Len(list) : list[j] = f
    THEN CHOOSE j \in 1..Len(list) : list[j] = f
    ELSE 0

\* C5, as stated: for every batch identifier that matches the range pattern,
\* the resolved end date is not before the resolved start date.
C5_EndNotBeforeStart ==
    RangeResolved => ~DateLess(end_date, start_date)

\* C5, amended: the resolved end date is not before the resolved start date
\* unless the identifier names an end day before the start day within one
\* month (a reversed range such as '7.12-7.6').
C5_EndNotBeforeStartUnlessReversed ==
    RangeResolved =>
        LET n == RangeNumbers(folder_name)
        IN  (n.end_month # n.start_month \/ n.end_day >= n.start_day)
                => ~DateLess(end_date, start_date)

\* A range across the year boundary was resolved, its end after its start.
C5_Witness ==
    /\ RangeResolved
    /\ pc = "extract"
    /\ MonthOf(end_date) < MonthOf(start_date)
    /\ DateLess(start_date, end_date)

\* C6: the resolved start date is in the reference year, and the end date is
\* in the next year if and only if end_month < start_month; otherwise the end
\* date is in the reference year too.
C6_EndYearWrapsIffEndMonthLess ==
    RangeResolved =>
        LET n == RangeNumbers(folder_name)
        IN  /\ YearOf(start_date) = current_year
            /\ MonthOf(start_date) = n.start_month
            /\ MonthOf(end_date) = n.end_month
            /\ (YearOf(end_date) = YearOf(start_date) + 1)
                   <=> (n.end_month < n.start_month)
            /\ ~(n.end_month < n.start_month)
                   => YearOf(end_date) = current_year

\* Both cases were resolved: here a range whose end is in the next year, with
\* the whole ordering done.
C6_Witness ==
    /\ RangeResolved
    /\ pc = "sorted"
    /\ YearOf(end_date) = current_year + 1
    /\ Len(sorted_files) > 0

\* C7: the resolver never raises, whatever numbers a matching identifier
\* holds, and a non-matching identifier resolves to no range in the
\* current year.
C7_ResolverNeverRaises ==
    /\ exception # "date"
    /\ (pc \in {"extract", "sorted"} /\ RangeMatch(folder_name) = None)
           => (start_date = NoDate /\ end_date = NoDate /\ year = current_year)

\* Whether the file name has a date in the year the resolver returned.
Parseable(f) == extract_date_from_filename(f, year) # NoDate

\* C8: in the returned list no unparseable name precedes a parseable one, and
\* the unparseable names are in their input order.
C8_UnparseableLastInInputOrder ==
    pc = "sorted" =>
        \A a, b \in 1..Len(sorted_files) :
            a < b =>
                /\ ~(~Parseable(sorted_files[a]) /\ Parseable(sorted_files[b]))
                /\ (~Parseable(sorted_files[a]) /\ ~Parseable(sorted_files[b]))
                       => IndexIn(md_files, sorted_files[a])
                              < IndexIn(md_files, sorted_files[b])

\* Two unparseable names and a parseable one were ordered, the parseable one
\* listed after an unparseable one in the input.
C8_Witness ==
    /\ pc = "sorted"
    /\ Len(md_files) = 3
    /\ ~Parseable(md_files[1])
    /\ Parseable(md_files[2])
    /\ ~Parseable(md_files[3])
    /\ sorted_files = <<md_files[2], md_files[1], md_files[3]>>

\* The candidate date the specification gives a file name: its month and day
\* in the reference year, or in the next year when a range was detected and
\* the month is less than the range's start month; the sentinel when the name
\* or the date does not parse.
CandidateDate(f) ==
    LET match == FilenameMatch(f)
    IN  IF match = None THEN DateMax
        ELSE LET m == ParseInt(match[1])
                 d == ParseInt(match[2])
             IN  IF ~ValidDate(year, m, d) THEN DateMax
                 ELSE IF start_date # NoDate /\ m < MonthOf(start_date)
                      THEN <<year + 1, m, d>>
                      ELSE <<year, m, d>>

\* C9: the returned list is a permutation of the input, in ascending
\* candidate-date order, names of equal date in input order.
C9_SortedPermutationStable ==
    pc = "sorted" =>
        /\ Len(sorted_files) = Len(md_files)
        /\ \A j \in 1..Len(md_files) : IndexIn(sorted_files, md_files[j]) > 0
        /\ \A a, b \in 1..Len(sorted_files) :
               a < b =>
                   LET da == CandidateDate(sorted_files[a])
                       db == CandidateDate(sorted_files[b])
                   IN  /\ ~DateLess(db, da)
                       /\ da = db => IndexIn(md_files, sorted_files[a])
                                         < IndexIn(md_files, sorted_files[b])

\* For the range '12.25-1.5', '1-2.md' listed before '12-30.md' was sorted
\* after it.
C9_Witness ==
    /\ pc = "sorted"
    /\ folder_name = <<"1","2",".","2","5","-","1",".","5">>
    /\ md_files = << <<"1","-","2",".","m","d">>,
                     <<"1","2","-","3","0",".","m","d">> >>
    /\ sorted_files = << <<"1","2","-","3","0",".","m","d">>,
                         <<"1","-","2",".","m","d">> >>

\* C10: the ordering never raises on a file name: a name whose date cannot be
\* built, in the reference year or the next, gets the sentinel date.
C10_OrderingNeverRaises ==
    exception # "replace"

-----------------------------------------------------------------------------
(* The aggregator: properties *)

\* The output exists: the merge has started in this run or an earlier one.
HasOutput == DOMAIN json_data # {}

\* The simple and the categorized sections of the output.
SimpleSections == {"HIGHLIGHTS", "PRODUCTS"}

\* The subcategory names the output format fixes for a categorized section.
FixedSubcategories(section_name) ==
    CASE section_name = "BUSINESS" ->
             {"Funding & Investment", "Company Updates",
              "Regulatory Developments", "Market Trends"}
      [] section_name = "TECHNOLOGY" ->
             {"Open Source Projects", "Models & Datasets",
              "Developer Tools & Demos"}
      [] section_name = "RESEARCH" ->
             {"Paper of the Week", "Notable Research"}

\* Every item of a list has a description of at least one character.
DescriptionsNonEmpty(list) ==
    \A k \in DOMAIN list :
        /\ "description" \in DOMAIN list[k]
        /\ Len(list[k].description) > 0

\* 'Widget'
Widget == <<"W","i","d","g","e","t">>

\* 'Model X launched'
ModelXLaunched ==
    <<"M","o","d","e","l"," ","X"," ","l","a","u","n","c","h","e","d">>

\* C1: every item of the merged output, in HIGHLIGHTS, in PRODUCTS and in
\* every subcategory list of BUSINESS, TECHNOLOGY and RESEARCH, has a
\* description that is a non-empty string.
C1_DescriptionNonEmpty ==
    HasOutput =>
        /\ \A section \in SimpleSections :
               DescriptionsNonEmpty(json_data[section])
        /\ \A section \in CategorizedSections :
               \A name \in DOMAIN json_data[section] :
                   DescriptionsNonEmpty(json_data[section][name])

\* A finished merge of two documents: one whose PRODUCTS item had a title
\* and no description (the title became the description), one whose
\* TECHNOLOGY section had an item with neither (it was dropped).
C1_Witness ==
    /\ pc = "done"
    /\ \E f, g \in DOMAIN file_contents :
           /\ file_contents[f] = DocProducts
           /\ file_contents[g] = DocTechnology
    /\ json_data.PRODUCTS = <<[description |-> Widget]>>
    /\ Len(json_data.TECHNOLOGY["Developer Tools & Demos"]) = 2

\* A sequence of items: a function on 1..n whose values are dicts. None, the
\* null of the output, is not one: its one element is not a dict.
IsItemList(value) ==
    /\ \E n \in 0..Cardinality(DOMAIN value) : DOMAIN value = 1..n
    /\ \A k \in DOMAIN value : DOMAIN value[k] \subseteq
           {"description", "title", "reference_link"}

\* C2: after merging any documents, some with missing or empty sections, the
\* output has exactly the five section keys; HIGHLIGHTS and PRODUCTS are
\* sequences; BUSINESS, TECHNOLOGY and RESEARCH have exactly their four,
\* three and two subcategory keys, each a sequence and never null.
C2_OutputShape ==
    HasOutput =>
        /\ DOMAIN json_data = SimpleSections \cup CategorizedSections
        /\ \A section \in SimpleSections :
               IsItemList(json_data[section])
        /\ \A section \in CategorizedSections :
               /\ DOMAIN json_data[section] = FixedSubcategories(section)
               /\ \A name \in FixedSubcategories(section) :
                      IsItemList(json_data[section][name])

\* A finished merge of two documents where the first has no RESEARCH section
\* and no PRODUCTS section and the second has research items: the containers
\* no document filled are empty, the others are not.
C2_Witness ==
    /\ pc = "done"
    /\ Len(parsed_files) = 2
    /\ parsed_files[1].sections["RESEARCH"] = EmptyText
    /\ parsed_files[1].sections["PRODUCTS"] = EmptyText
    /\ json_data.RESEARCH["Notable Research"] # <<>>
    /\ json_data.RESEARCH["Paper of the Week"] = <<>>
    /\ json_data.PRODUCTS = <<>>

\* FileOrdering's document order for the folder.
DocumentOrder == sort_files_by_date(md_files, folder_name, current_year).files

\* What the section parse of a document produces for a section.
SectionParse(file, section_name) ==
    parse_section_items(parse_markdown_file(file_contents[file])[section_name],
                        section_name)

\* The concatenation, over the files from the k-th on, of the items each
\* document gives a simple section.
RECURSIVE ConcatSimple(_, _, _)
ConcatSimple(order, section_name, k) ==
    IF k > Len(order) THEN <<>>
    ELSE SectionParse(order[k], section_name)
         \o ConcatSimple(order, section_name, k + 1)

\* The same for a categorized section: for each subcategory, the concatenation
\* of the items each document gives it.
RECURSIVE ConcatCategorized(_, _, _)
ConcatCategorized(order, section_name, k) ==
    IF k > Len(order) THEN [name \in FixedSubcategories(section_name) |-> <<>>]
    ELSE LET here == SectionParse(order[k], section_name)
             rest == ConcatCategorized(order, section_name, k + 1)
         IN  [name \in FixedSubcategories(section_name) |->
                 here[name] \o rest[name]]

\* C3: every output sequence is the concatenation, in FileOrdering's document
\* order, of what each document's section parse produced for it, each
\* document's items in their in-document order: nothing is reordered and
\* equal items from different documents are all kept.
C3_ConcatenationInDocumentOrder ==
    pc = "done" =>
        /\ \A section \in SimpleSections :
               json_data[section] = ConcatSimple(DocumentOrder, section, 1)
        /\ \A section \in CategorizedSections :
               json_data[section] = ConcatCategorized(DocumentOrder, section, 1)

\* Scenario A and more: 7-7.md is listed before 7-6.md, both have the bullet
\* 'Model X launched', and 7-7.md has a second highlight; the output has the
\* two equal items and then the second highlight.
C3_Witness ==
    /\ pc = "done"
    /\ Len(md_files) = 2
    /\ sorted_files = <<md_files[2], md_files[1]>>
    /\ Len(json_data.HIGHLIGHTS) = 3
    /\ json_data.HIGHLIGHTS[1] = [description |-> ModelXLaunched]
    /\ json_data.HIGHLIGHTS[2] = [description |-> ModelXLaunched]
    /\ json_data.HIGHLIGHTS[3] # json_data.HIGHLIGHTS[2]

\* C4: running the pipeline twice on the same folder name and the same
\* documents listed in the same order, in the same reference year, gives
\* identical output structures.
C4_RerunSameOutput ==
    (pc = "done" /\ run = 2) => json_data = first_output

\* The second run has finished and its output has items.
C4_Witness ==
    /\ pc = "done"
    /\ run = 2
    /\ Len(md_files) = 2
    /\ json_data.HIGHLIGHTS # <<>>
    /\ json_data.BUSINESS["Funding & Investment"] # <<>>

-----------------------------------------------------------------------------
(* The section parsers: properties *)

\* A line of the section is being parsed.
AtLine == pc = "lines" /\ parse_state.i <= Len(parse_lines)

\* The line being parsed, as the parsers see it (stripped).
CurrentLine == Strip(parse_lines[parse_state.i])

\* The step from a line creates a standalone item.
ItemAdded ==
    /\ parse_name \notin CategorizedSections
    /\ Len(parse_state'.items) = Len(parse_state.items) + 1
    /\ parse_state'.current_item = parse_state.current_item

\* The step from a line creates the open item or adds the line to it.
OpenItemTouched ==
    /\ parse_state'.current_item # NoItem
    /\ parse_state'.current_item # parse_state.current_item

\* The open item has no link yet, or there is no open item.
NoLinkYet ==
    \/ parse_state.current_item = NoItem
    \/ ~Truthy(parse_state.current_item.reference_link)

\* What the normalizer makes of the item.
Normalized(item) == CleanItem(item)

\* 'See here for details'
SeeHereForDetails ==
    <<"S","e","e"," ","h","e","r","e"," ","f","o","r"," ","d","e","t","a","i","l","s">>

\* 'https://x.com'
XCom == <<"h","t","t","p","s",":","/","/","x",".","c","o","m">>

\* The normalized item's description contains 'See here for details' and its
\* reference_link is 'https://x.com'.
SeeHereItem(item) ==
    /\ HasContent(item)
    /\ Contains(Normalized(item).description, SeeHereForDetails)
    /\ "reference_link" \in DOMAIN Normalized(item)
    /\ Normalized(item).reference_link = XCom

\* C11: in every section kind, when 'See [here](https://x.com) for details'
\* creates an item, or is added to an open item that has no reference_link
\* yet, the item's description contains 'See here for details' and its
\* reference_link is 'https://x.com'.
C11_SeeHereLinkExtracted ==
    [][(AtLine /\ CurrentLine = LineSeeHere) =>
           /\ ItemAdded =>
                  SeeHereItem(parse_state'.items[Len(parse_state'.items)])
           /\ (NoLinkYet /\ OpenItemTouched) =>
                  SeeHereItem(parse_state'.current_item)]_vars

\* The call has returned for this section and this text.
Returned(name, text) ==
    pc = "returned" /\ parse_name = name /\ parse_lines = text

\* The number of items of the result of a categorized section.
RECURSIVE CountItems(_, _)
CountItems(result, names) ==
    IF names = {} THEN 0
    ELSE LET name == CHOOSE n \in names : TRUE
         IN  Len(result[name]) + CountItems(result, names \ {name})

\* Scenario B: 'Funding Update', 12 dashes, 'See [here](https://x.com)'.
ScenarioB == <<LineFundingUpdate, LineDashes12, LineSeeHereShort>>

\* The result of scenario B is one item, with the link, in this subcategory.
ScenarioBIn(name) ==
    /\ CountItems(parse_result, DOMAIN parse_result) = 1
    /\ Len(parse_result[name]) = 1
    /\ "reference_link" \in DOMAIN parse_result[name][1]
    /\ parse_result[name][1].reference_link = XCom

\* C12 as claimed: scenario B yields exactly one item, with reference_link
\* 'https://x.com', placed in 'Company Updates'.
C12_ScenarioBInCompanyUpdates ==
    Returned("BUSINESS", ScenarioB) => ScenarioBIn("Company Updates")

\* C12 as amended: scenario B yields exactly one item, with reference_link
\* 'https://x.com', placed in 'Funding & Investment': the title contains the
\* keyword 'funding'.
C12_ScenarioBInFunding ==
    Returned("BUSINESS", ScenarioB) => ScenarioBIn("Funding & Investment")

\* Scenario B has been parsed and its item has title 'Funding Update'.
C12_Witness ==
    /\ Returned("BUSINESS", ScenarioB)
    /\ CountItems(parse_result, DOMAIN parse_result) = 1
    /\ \E name \in DOMAIN parse_result :
           /\ Len(parse_result[name]) = 1
           /\ parse_result[name][1].title = LineFundingUpdate

\* Scenario C: 'Paper of the Day', '[Great Paper](http://a) (2025-07-06)'.
ScenarioC == <<LinePaperOfTheDay, LineGreatPaper>>

\* 'Great Paper'
GreatPaper == <<"G","r","e","a","t"," ","P","a","p","e","r">>

\* 'http://a'
HttpA == <<"h","t","t","p",":","/","/","a">>

\* The result is one item, under 'Paper of the Week', with the link.
OnePaperOfTheWeek ==
    /\ CountItems(parse_result, DOMAIN parse_result) = 1
    /\ Len(parse_result["Paper of the Week"]) = 1
    /\ "reference_link" \in DOMAIN parse_result["Paper of the Week"][1]
    /\ parse_result["Paper of the Week"][1].reference_link = HttpA

\* C13 as claimed: scenario C yields one item under 'Paper of the Week' whose
\* title is 'Great Paper' (date suffix stripped) and whose reference_link is
\* 'http://a'.
C13_ScenarioCTitle ==
    Returned("RESEARCH", ScenarioC) =>
        /\ OnePaperOfTheWeek
        /\ "title" \in DOMAIN parse_result["Paper of the Week"][1]
        /\ parse_result["Paper of the Week"][1].title = GreatPaper

\* C13 as amended: scenario C yields one item under 'Paper of the Week' whose
\* reference_link is 'http://a' and whose description is 'Great Paper' (date
\* suffix stripped), without a title: the item has no description line, so
\* the normalizer moves the title into the description. When the line
\* '**Authors:** A' follows, the item's title is 'Great Paper'.
C13_ScenarioCTitleMoved ==
    /\ Returned("RESEARCH", ScenarioC) =>
           /\ OnePaperOfTheWeek
           /\ parse_result["Paper of the Week"][1].description = GreatPaper
           /\ "title" \notin DOMAIN parse_result["Paper of the Week"][1]
    /\ Returned("RESEARCH", Append(ScenarioC, LineAuthors)) =>
           /\ OnePaperOfTheWeek
           /\ "title" \in DOMAIN parse_result["Paper of the Week"][1]
           /\ parse_result["Paper of the Week"][1].title = GreatPaper
           /\ parse_result["Paper of the Week"][1].description = LineAuthors

\* Scenario C has been parsed and gave an item.
C13_Witness ==
    /\ Returned("RESEARCH", ScenarioC)
    /\ parse_state.current_item.title = GreatPaper
    /\ CountItems(parse_result, DOMAIN parse_result) = 1

\* C14: for every section name and every section text, parsing and
\* normalization never raise: with missing titles or descriptions, items
\* without a 'title' field, stray headers and a look-ahead at the last line,
\* the call goes on to the next line or returns a result.
C14_ParsingNeverRaises ==
    /\ pc # "raised"
    /\ exception = "none"
    /\ (pc = "lines" /\ parse_name \in CategorizedSections) =>
           ~parse_state.raised /\ parse_state.single = {}

\* A RESEARCH text has been parsed to the end where an item header follows an
\* open paper of the week (the header became the paper's description), and a
\* BUSINESS text that ends in a title waiting for its line of dashes.
C14_Witness ==
    \/ /\ Returned("RESEARCH", <<LinePaperOfTheDay, LineGreatPaper, LineSurvey>>)
       /\ parse_result["Paper of the Week"][1].description = LineSurvey
    \/ /\ Returned("BUSINESS", <<LineBulletRaised, LineFundingUpdate>>)
       /\ "title" \notin DOMAIN parse_result["Funding & Investment"][1]

-----------------------------------------------------------------------------
(* Documents parsed side by side: properties *)

\* C15: parsing a document's section depends only on the section's text and
\* name, whatever the other documents' parsers were doing in between: once
\* every task has finished, in whatever interleaving, each section of each
\* task holds what parse_section_items gives for its text, and the results
\* of all tasks, merged in FileOrdering's order, are the output of the
\* sequential pipeline. Where the sequential pipeline has no output because
\* FileOrdering raises, no parse has begun and nothing is merged.
C15_InterleavedParsingSameOutput ==
    /\ pc = "merged" =>
           /\ ~sort_files_by_date(md_files, folder_name, current_year).raised
           /\ \A file \in DOMAIN tasks :
                  \A name \in DOMAIN tasks[file].results :
                      tasks[file].results[name] =
                          parse_section_items(tasks[file].sections[name], name)
           /\ parallel_output =
                  MergeAll(JsonInit,
                           sort_files_by_date(md_files, folder_name,
                                              current_year).files,
                           file_contents, 1, 1)
    /\ sort_files_by_date(md_files, folder_name, current_year).raised =>
           /\ pc \in {"start", "returned", "raised"}
           /\ pc = "returned" => md_files = <<>>
           /\ \A file \in DOMAIN tasks : tasks[file] = NewTask
           /\ parallel_output = <<>>

\* Two documents were parsed side by side, the later one first: its RESEARCH
\* parser had read 'Paper of the Day' when the earlier document's RESEARCH
\* parser began; the merged output has both items, each in its place.
C15_Witness ==
    /\ pc = "merged"
    /\ Len(sorted_files) = 2
    /\ file_contents[sorted_files[1]] = DocBullets
    /\ file_contents[sorted_files[2]] = DocPaper
    /\ last_parser.i > 1
    /\ DOMAIN last_parser.result = {"Paper of the Week", "Notable Research"}
    /\ Len(parallel_output.RESEARCH["Notable Research"]) = 1
    /\ Len(parallel_output.RESEARCH["Paper of the Week"]) = 1

-----------------------------------------------------------------------------
(* The text-transform calls: properties *)

\* C16: translate_text_async and clean_text_async call the service at most
\* max_retries (3) times per text; a wait happens only between two attempts
\* (one wait before each attempt but the first, none after the last); and
\* when every attempt has failed the function returns the input text, no
\* exception leaving it.
C16_BoundedRetriesThenInput ==
    /\ retry_calls <= max_retries
    /\ Len(retry_waits) <= retry_calls
    /\ pc = "attempt" => Len(retry_waits) = retry_calls
    /\ pc = "returned" =>
           /\ Len(retry_waits) = IF retry_calls = 0 THEN 0 ELSE retry_calls - 1
           /\ retry_failures = retry_calls => retry_returned = retry_text
           /\ exception = "none"

\* Three calls of the service for one text have failed, two waits (1 and 2
\* seconds) lay between them, and the input came back.
C16_Witness ==
    /\ pc = "returned"
    /\ retry_text = TextSentence
    /\ retry_calls = max_retries
    /\ retry_failures = max_retries
    /\ retry_waits = <<1, 2>>
    /\ retry_returned = TextSentence

-----------------------------------------------------------------------------
(* The section splitter: properties *)

\* The splitter reads a line.
ReadsLine == pc = "split" /\ split_index' = split_index + 1

\* The line the splitter reads.
LineRead == split_lines[split_index]

\* The line read comes right after a section-name line.
FollowsHeader ==
    split_index > 1 /\ IsSectionHeader(split_lines[split_index - 1])

\* The line read is given to the open section.
Appended ==
    split_state'.section_content = Append(split_state.section_content, LineRead)

\* The line read is dropped.
Discarded ==
    split_state'.section_content = split_state.section_content

\* C17: a line whose trimmed form is a section name stores the lines of the
\* section open before and opens the named section; while a section is
\* open, a dash-only line is discarded if and only if it comes right after
\* a section-name line, and every other line (the terminal marker apart) is
\* appended to the open section.
C17_DashesDiscardedOnlyAfterHeader ==
    [][ReadsLine =>
          /\ IsSectionHeader(LineRead) =>
                 /\ split_state'.sections = SaveSection(split_state)
                 /\ split_state'.current_section = HeaderSection(LineRead)
                 /\ split_state'.section_content = <<>>
          /\ (~IsSectionHeader(LineRead) /\ split_state.current_section # "None"
                  /\ ~IsTerminalMarker(LineRead)) =>
                 /\ (AllDashes(LineRead) /\ FollowsHeader) => Discarded
                 /\ ~(AllDashes(LineRead) /\ FollowsHeader) => Appended
       ]_vars

\* The first line of the document that is a terminal marker and that no
\* earlier branch takes; 0 when there is none.
FirstMarker ==
    IF \E j \in 1..Len(split_lines) : IsTerminalMarker(split_lines[j])
    THEN CHOOSE j \in 1..Len(split_lines) :
             /\ IsTerminalMarker(split_lines[j])
             /\ \A k \in 1..(j - 1) : ~IsTerminalMarker(split_lines[k])
    ELSE 0

\* C18: when the splitter has returned, a document with a terminal marker
\* was read up to the marker and no further, and its sections are those of
\* the document cut before the marker (the open section stored, no later
\* line in any section, later section names ignored); a document without
\* a marker was read to its end.
C18_NothingAfterLookingAhead ==
    pc = "split_done" =>
        IF FirstMarker = 0
        THEN split_index = Len(split_lines) + 1
        ELSE /\ split_index = FirstMarker + 1
             /\ split_state.sections =
                    parse_markdown_file(SubSeq(split_lines, 1, FirstMarker - 1))
             /\ split_state.current_section # "None" =>
                    split_state.sections[split_state.current_section] =
                        StripText(JoinLines(split_state.section_content))

\* HIGHLIGHTS, a bullet, the marker, then RESEARCH: HIGHLIGHTS holds the
\* bullet and RESEARCH, named after the marker, was never opened.
C18_Witness ==
    /\ pc = "split_done"
    /\ split_lines = <<DocLineHighlights, DocLineBullet, DocLineLookingAhead,
                       DocLineResearch>>
    /\ split_state.sections["HIGHLIGHTS"] = <<DocLineBullet>>
    /\ split_state.current_section = "HIGHLIGHTS"
    /\ split_state.sections["RESEARCH"] = EmptyText

-----------------------------------------------------------------------------
(* The simple sections line by line: properties *)

\* The line being parsed is a bullet line: a leading bullet or star with
\* text after it (a line of stars and spaces only is a delimiter).
BulletLine ==
    /\ CurrentLine # <<>>
    /\ CurrentLine[1] \in {Bullet, "*"}
    /\ ~IsDelimiter(CurrentLine)
    /\ Strip(Tail(CurrentLine)) # <<>>

\* C19: in HIGHLIGHTS every bullet line, the bullet being a leading bullet
\* character or a leading star, gives exactly one standalone item whose
\* description is the line without its marker, and leaves the items before
\* it as they were.
C19_HighlightsBulletStripped ==
    [][(AtLine /\ parse_name = "HIGHLIGHTS" /\ BulletLine) =>
          /\ Len(parse_state'.items) = Len(parse_state.items) + 1
          /\ SubSeq(parse_state'.items, 1, Len(parse_state.items)) =
                 parse_state.items
          /\ parse_state'.items[Len(parse_state'.items)].description =
                 Strip(Tail(CurrentLine))
       ]_vars

\* The line being parsed is neither blank nor a delimiter.
ContentLine == CurrentLine # <<>> /\ ~IsDelimiter(CurrentLine)

\* The line being parsed is followed by a dash-only line of more than 10
\* characters.
TitlePair == DashesLongerFollow(parse_lines, parse_state.i, TitleDashes)

\* The line being parsed has the form **[...]**.
BoldEcho ==
    /\ StartsWith(CurrentLine, <<"*","*","[">>)
    /\ EndsWith(CurrentLine, <<"*","*">>)

\* The open item with the line being parsed joined to its description, the
\* line's link taken when the item has none.
Joined ==
    [parse_state.current_item EXCEPT
        !.description =
            IF @ = <<>> THEN CurrentLine ELSE @ \o <<" ">> \o CurrentLine,
        !.reference_link =
            IF Truthy(@) \/ extract_link_from_text(CurrentLine) = None THEN @
            ELSE extract_link_from_text(CurrentLine)]

\* The step of a title pair: the open item, if any, is finalized and a new
\* item with the line as title is opened.
TitleOpens ==
    /\ parse_state'.items =
           IF parse_state.current_item # NoItem
           THEN Append(parse_state.items, parse_state.current_item)
           ELSE parse_state.items
    /\ parse_state'.current_item =
           [title |-> CurrentLine, description |-> <<>>, reference_link |-> None]
    /\ parse_state'.i = parse_state.i + 2

\* The step joins the line to the open item, which stays open.
LineJoined ==
    /\ parse_state'.items = parse_state.items
    /\ parse_state'.current_item = Joined

\* The step leaves the items and the open item as they were.
LineSkipped ==
    /\ parse_state'.items = parse_state.items
    /\ parse_state'.current_item = parse_state.current_item

\* C20 as stated: in PRODUCTS a line followed by a dash-only line of more
\* than 10 characters finalizes the open item and opens a new one with the
\* line as title; every later non-blank, non-delimiter line up to the next
\* title pair is space-joined into the open item's description, and the
\* first link among those lines becomes its reference_link.
C20_EveryLaterLineJoined ==
    [][(AtLine /\ parse_name = "PRODUCTS" /\ ContentLine) =>
          /\ TitlePair => TitleOpens
          /\ (~TitlePair /\ parse_state.current_item # NoItem) => LineJoined
       ]_vars

\* C20 amended: as stated, except that a line of the form **[...]** is
\* skipped, its link unused, when just_created_item_from_dashes is set. The
\* flag is set by a title pair, cleared by the skipped line and by a content
\* line that does not begin with '**[', and left alone by blank and
\* delimiter lines.
C20_LaterLinesJoinedButBoldEcho ==
    [][(AtLine /\ parse_name = "PRODUCTS") =>
          /\ ~ContentLine =>
                 /\ LineSkipped
                 /\ UNCHANGED parse_state.just_created_item_from_dashes
          /\ (ContentLine /\ TitlePair) =>
                 /\ TitleOpens
                 /\ parse_state'.just_created_item_from_dashes
          /\ (ContentLine /\ ~TitlePair /\ BoldEcho
                  /\ parse_state.just_created_item_from_dashes) =>
                 /\ LineSkipped
                 /\ ~parse_state'.just_created_item_from_dashes
          /\ (ContentLine /\ ~TitlePair
                  /\ ~(BoldEcho /\ parse_state.just_created_item_from_dashes)) =>
                 /\ parse_state.current_item # NoItem => LineJoined
                 /\ parse_state.current_item = NoItem => LineSkipped
                 /\ parse_state'.just_created_item_from_dashes =
                        (/\ parse_state.just_created_item_from_dashes
                         /\ StartsWith(CurrentLine, <<"*","*","[">>))
       ]_vars

\* 'Widget' over 12 dashes opened an item, '**[Widget](http://w)**' was
\* skipped, and 'See [here](https://x.com) for details' was joined: the
\* item's link is the joined line's, not the skipped line's.
C20_Witness ==
    /\ pc = "lines"
    /\ parse_name = "PRODUCTS"
    /\ parse_lines = <<LineWidget, LineDashes12, LineBoldWidget, LineSeeHere>>
    /\ parse_state.i = 5
    /\ parse_state.current_item =
           [title |-> Widget, description |-> LineSeeHere, reference_link |-> XCom]

\* C21: in PRODUCTS a bold-wrapped line is swallowed only as the first
\* content line after a freshly opened title pair: once another content
\* line has been joined to the item opened by the title, a bold-wrapped line
\* is swallowed no more, it is joined like any other line.
C21_NoSwallowAfterContent ==
    [][(/\ AtLine /\ parse_name = "PRODUCTS"
        /\ ContentLine /\ ~TitlePair /\ BoldEcho
        /\ parse_state.current_item # NoItem
        /\ parse_state.current_item.description # <<>>) => LineJoined
       ]_vars

-----------------------------------------------------------------------------
(* The categorized sections line by line: properties *)

\* A line of a categorized section that is neither blank nor a delimiter is
\* being parsed.
AtCategorizedLine ==
    AtLine /\ parse_name \in CategorizedSections /\ ContentLine

\* The line being parsed is one of the RESEARCH rules on 'paper of the day'
\* and 'notable research', which come first.
ResearchMarker ==
    /\ parse_name = "RESEARCH"
    /\ IsPaperOfTheDay(CurrentLine) \/ IsNotableResearch(CurrentLine)

\* The line being parsed contains the name of this subcategory.
Names(name) == Contains(Lower(CurrentLine), Lower(SubcatChars(name)))

\* The line being parsed contains the name of a subcategory of the section.
NamesSubcategory == \E name \in SubcategorySet(parse_name) : Names(name)

\* The first subcategory of the section, in the order of the table, that the
\* line being parsed names.
NamedSubcategory ==
    LET subs == Subcategories(parse_name)
    IN  subs[CHOOSE j \in 1..Len(subs) :
                 /\ Names(subs[j])
                 /\ \A k \in 1..(j - 1) : ~Names(subs[k])]

\* The line being parsed is a markdown heading.
MarkdownHeading == StartsWith(CurrentLine, <<"#">>)

\* The line being parsed is followed by a dash-only line.
Underlined == DashesFollow(parse_lines, parse_state.i)

\* The line being parsed is followed by a dash-only line of more than 5
\* characters.
HeadingWithDashes ==
    DashesLongerFollow(parse_lines, parse_state.i, HeaderDashes)

\* The step creates no item and leaves the open item as it is.
NoItemTouched ==
    /\ parse_state'.result = parse_state.result
    /\ parse_state'.current_item = parse_state.current_item

\* The step consumes the line and the dash-only line after it, if any.
ConsumedWithDashes ==
    parse_state'.i = parse_state.i + (IF Underlined THEN 2 ELSE 1)

\* C22: in a categorized section a markdown-heading line ('#', '##' or
\* '###') or a heading-with-dashes line that contains the name of one of the
\* section's subcategories, whatever the case, sets current_subcategory to
\* that name, creates no item and consumes the dash-only line after it, if
\* there is one. The RESEARCH lines on 'paper of the day' and 'notable
\* research' have their own rule and are left out.
C22_HeaderSwitchesSubcategory ==
    [][(/\ AtCategorizedLine /\ ~ResearchMarker
        /\ MarkdownHeading \/ HeadingWithDashes
        /\ NamesSubcategory) =>
          /\ parse_state'.current_subcategory = NamedSubcategory
          /\ NoItemTouched
          /\ ConsumedWithDashes
       ]_vars

\* The line being parsed contains 'market analysis' or 'analysis'.
MentionsAnalysis ==
    \/ Contains(Lower(CurrentLine),
                <<"m","a","r","k","e","t"," ","a","n","a","l","y","s","i","s">>)
    \/ Contains(Lower(CurrentLine), <<"a","n","a","l","y","s","i","s">>)

\* The line being parsed contains 'm&a', 'mergers' or 'partnerships'.
MentionsMergers ==
    \/ Contains(Lower(CurrentLine), <<"m","&","a">>)
    \/ Contains(Lower(CurrentLine), <<"m","e","r","g","e","r","s">>)
    \/ Contains(Lower(CurrentLine),
                <<"p","a","r","t","n","e","r","s","h","i","p","s">>)

\* C23: in BUSINESS a heading-with-dashes line that names no subcategory
\* and contains 'market analysis' or 'analysis' sets current_subcategory to
\* 'Market Trends', and one that contains 'm&a', 'mergers' or 'partnerships'
\* (and no 'analysis') sets it to 'Company Updates'; the line and its
\* underline are consumed, no item is opened and none is emitted.
C23_BusinessRedirects ==
    [][(/\ AtCategorizedLine /\ parse_name = "BUSINESS"
        /\ HeadingWithDashes /\ ~NamesSubcategory
        /\ MentionsAnalysis \/ MentionsMergers) =>
          /\ parse_state'.current_subcategory =
                 IF MentionsAnalysis THEN "Market Trends" ELSE "Company Updates"
          /\ NoItemTouched
          /\ parse_state'.i = parse_state.i + 2
       ]_vars

\* 'Market Analysis' and 'M&A and Partnerships', each over 8 dashes, were
\* read: the subcategory went to 'Market Trends' and then to 'Company
\* Updates', and there is no item.
C23_Witness ==
    /\ pc = "lines"
    /\ parse_name = "BUSINESS"
    /\ parse_lines = <<LineMarketAnalysis, LineDashes8, LineMergers, LineDashes8>>
    /\ parse_state.i = 5
    /\ parse_state.current_subcategory = "Company Updates"
    /\ parse_state.current_item = NoItem
    /\ \A name \in SubcategorySet("BUSINESS") : parse_state.result[name] = <<>>

\* The line being parsed is plain text: no markdown heading, no bold or
\* bullet line, not bracket-led and none of the RESEARCH markers, so that
\* only the line after it can make it a header or a title.
PlainLine ==
    /\ ~MarkdownHeading
    /\ ~IsBullet(CurrentLine)
    /\ ~StartsWith(CurrentLine, <<"[">>)
    /\ ~ResearchMarker

\* The step opens an item with the line being parsed as title.
TitleItemOpened ==
    /\ parse_state'.current_item # NoItem
    /\ parse_state'.current_item # parse_state.current_item
    /\ "title" \in DOMAIN parse_state'.current_item
    /\ parse_state'.current_item.title = CurrentLine
    /\ parse_state'.current_item.description = <<>>

\* C24: a line is a heading-with-dashes only over a dash-only line of more
\* than 5 characters and a title item only over one of more than 10: over a
\* shorter dash-only line a plain line switches no subcategory (the BUSINESS
\* redirects included), the underline is not consumed with it, and over a
\* dash-only line of 10 characters or fewer no title item is opened.
C24_ShortUnderlineTriggersNothing ==
    [][(AtCategorizedLine /\ PlainLine /\ Underlined) =>
          /\ ~HeadingWithDashes =>
                 /\ parse_state'.current_subcategory =
                        parse_state.current_subcategory
                 /\ parse_state'.i = parse_state.i + 1
          /\ ~DashesLongerFollow(parse_lines, parse_state.i, TitleDashes) =>
                 ~TitleItemOpened
       ]_vars

\* The line being parsed contains one of the sub-headers of TECHNOLOGY that
\* are no subcategory.
NamesSubsection ==
    \E header \in SubsectionHeaders :
        Contains(Lower(CurrentLine), Lower(header))

\* C25: in TECHNOLOGY a markdown-heading line that matches one of the known
\* sub-headers ('New and Notable Models', 'Datasets', 'Models', 'Developer
\* Tools', 'Spaces') and names no subcategory is discarded:
\* current_subcategory, current_item and the lists are left as they were.
C25_SubsectionHeaderDiscarded ==
    [][(/\ AtCategorizedLine /\ parse_name = "TECHNOLOGY"
        /\ MarkdownHeading /\ NamesSubsection /\ ~NamesSubcategory) =>
          /\ parse_state'.current_subcategory = parse_state.current_subcategory
          /\ NoItemTouched
          /\ parse_state'.i = parse_state.i + 1
       ]_vars

\* C26: in RESEARCH a line containing 'notable research', whatever the
\* case (and not 'paper of the day', whose rule comes first), appends the
\* open item to 'Paper of the Week' and closes it exactly when
\* current_subcategory was 'Paper of the Week'; it then sets
\* current_subcategory to 'Notable Research' and consumes the dash-only line
\* after it, if any. The line itself is added to no item.
C26_NotableResearchSwitch ==
    [][(/\ AtCategorizedLine /\ parse_name = "RESEARCH"
        /\ IsNotableResearch(CurrentLine) /\ ~IsPaperOfTheDay(CurrentLine)) =>
          /\ IF /\ parse_state.current_item # NoItem
                /\ parse_state.current_subcategory = "Paper of the Week"
             THEN /\ parse_state'.result =
                         [parse_state.result EXCEPT !["Paper of the Week"] =
                              Append(@, parse_state.current_item)]
                  /\ parse_state'.current_item = NoItem
             ELSE NoItemTouched
          /\ parse_state'.current_subcategory = "Notable Research"
          /\ ConsumedWithDashes
       ]_vars

\* 'Paper of the Day', the paper, 'Notable Research' over dashes: the paper
\* was appended to 'Paper of the Week' and closed, the subcategory is
\* 'Notable Research' and the dashes were consumed.
C26_Witness ==
    /\ pc = "lines"
    /\ parse_name = "RESEARCH"
    /\ parse_lines =
           <<LinePaperOfTheDay, LineGreatPaper, LineNotableResearch, LineDashes4>>
    /\ parse_state.i = 5
    /\ Len(parse_state.result["Paper of the Week"]) = 1
    /\ parse_state.result["Paper of the Week"][1].title = GreatPaper
    /\ parse_state.current_item = NoItem
    /\ parse_state.current_subcategory = "Notable Research"

\* The line being parsed is bracket-led and holds an inline link, and is
\* not taken by the RESEARCH markers, whose rules come first.
PaperLine ==
    /\ AtCategorizedLine /\ parse_name = "RESEARCH" /\ ~ResearchMarker
    /\ StartsWith(CurrentLine, <<"[">>)
    /\ FirstLink(CurrentLine, 1) # 0

\* The first inline link of the line being parsed.
LinkOfLine == LinkAt(CurrentLine, FirstLink(CurrentLine, 1))

\* What a paper line does apart from the title of the item it opens: the
\* open item, if any, is appended to the list of its subcategory, the new
\* item has no description and the link's target as reference_link, and
\* 'Paper of the Week' becomes the subcategory when none is active.
PaperOpened ==
    /\ IF parse_state.current_item # NoItem
       THEN /\ parse_state.current_subcategory # "None"
            /\ parse_state'.result =
                   [parse_state.result EXCEPT
                        ![parse_state.current_subcategory] =
                            Append(@, parse_state.current_item)]
       ELSE parse_state'.result = parse_state.result
    /\ parse_state'.current_item.description = <<>>
    /\ parse_state'.current_item.reference_link = LinkOfLine.url
    /\ parse_state'.current_subcategory =
           IF parse_state.current_subcategory = "None"
           THEN "Paper of the Week" ELSE parse_state.current_subcategory
    /\ parse_state'.i = parse_state.i + 1

\* C27 as stated: in RESEARCH every bracket-led line with an inline link
\* appends the open item, if any, to its list and opens a new item whose
\* title is the link text, a trailing '(YYYY-MM-DD)' removed, and whose
\* reference_link is the link's target; 'Paper of the Week' becomes the
\* subcategory when none is active.
C27_PaperTitleIsLinkText ==
    [][PaperLine =>
          /\ PaperOpened
          /\ parse_state'.current_item.title = StripDateSuffix(LinkOfLine.text)
       ]_vars

\* C27 amended: as stated, but the title is the whole line with every inline
\* link replaced by its text and a trailing '(YYYY-MM-DD)' removed: text
\* after the link other than the date stays in the title.
C27_PaperTitleIsLineWithoutMarkup ==
    [][PaperLine =>
          /\ PaperOpened
          /\ parse_state'.current_item.title =
                 StripDateSuffix(SubLinks(CurrentLine))
       ]_vars

\* After '[Great Paper](http://a) (2025-07-06)' the line
\* '[Survey](http://s) of agents' was read: the first paper is in 'Paper of
\* the Week' and the open item has the title 'Survey of agents'.
C27_Witness ==
    /\ pc = "lines"
    /\ parse_name = "RESEARCH"
    /\ parse_lines = <<LineGreatPaper, LineSurveyOfAgents>>
    /\ parse_state.i = 3
    /\ Len(parse_state.result["Paper of the Week"]) = 1
    /\ parse_state.result["Paper of the Week"][1].title = GreatPaper
    /\ parse_state.current_item.title =
           <<"S","u","r","v","e","y"," ","o","f"," ","a","g","e","n","t","s">>
    /\ parse_state.current_item.reference_link =
           <<"h","t","t","p",":","/","/","s">>

\* The line being parsed is an item header: a '###' heading or a line that
\* begins with a bold part, and none of the lines that earlier rules take
\* (RESEARCH markers and author lines, subcategory headers, underlined
\* lines, the sub-headers of TECHNOLOGY).
ItemHeaderLine ==
    /\ AtCategorizedLine /\ ~ResearchMarker
    /\ ItemHeader(CurrentLine).is_item_header
    /\ ~(parse_name = "RESEARCH" /\ IsAuthorsLine(CurrentLine))
    /\ ~NamesSubcategory
    /\ ~Underlined
    /\ ~(parse_name = "TECHNOLOGY" /\ NamesSubsection)

\* The step appends the open item, if any, to the list of its subcategory.
OpenItemFinalized ==
    IF parse_state.current_item # NoItem
    THEN /\ parse_state.current_subcategory # "None"
         /\ parse_state'.result =
                [parse_state.result EXCEPT
                     ![parse_state.current_subcategory] =
                         Append(@, parse_state.current_item)]
    ELSE parse_state'.result = parse_state.result

\* C28: in BUSINESS, TECHNOLOGY and RESEARCH a '###' heading or a
\* bold-wrapped item header that is no subcategory header finalizes the open
\* item and opens a new one: its title is the header text without markup,
\* its description the text after the bold part, if any, its reference_link
\* the first inline link of the header, the link markup removed from title
\* and description; when no subcategory is active one is assigned from the
\* header text.
C28_ItemHeaderOpensItem ==
    [][ItemHeaderLine =>
          /\ OpenItemFinalized
          /\ parse_state'.current_item =
                 [title |-> SubLinks(ItemHeader(CurrentLine).title),
                  description |-> SubLinks(ItemHeader(CurrentLine).description),
                  reference_link |->
                      extract_link_from_text(
                          JoinSpace(ItemHeader(CurrentLine).title,
                                    ItemHeader(CurrentLine).description))]
          /\ parse_state'.current_subcategory =
                 IF parse_state.current_subcategory = "None"
                 THEN detect_subcategory(
                          JoinSpace(ItemHeader(CurrentLine).title, CurrentLine),
                          parse_name)
                 ELSE parse_state.current_subcategory
          /\ parse_state'.i = parse_state.i + 1
       ]_vars

\* The line being parsed is a bullet line: a leading bullet or star, no
\* bold item header, and not underlined.
CategorizedBulletLine ==
    /\ AtCategorizedLine /\ ~ResearchMarker
    /\ IsBullet(CurrentLine)
    /\ ~ItemHeader(CurrentLine).is_item_header
    /\ ~Underlined

\* The text of the bullet line being parsed, without its marker.
BulletText == Strip(Tail(CurrentLine))

\* C29: in BUSINESS a bullet line, in whatever state the parser is, starts
\* no new item: no item is emitted, no item is opened when none is open, and
\* the open item only gets the bullet's text joined to its description.
C29_BusinessBulletOnlyExtends ==
    [][(CategorizedBulletLine /\ parse_name = "BUSINESS") =>
          /\ parse_state'.result = parse_state.result
          /\ IF parse_state.current_item = NoItem
             THEN parse_state'.current_item = NoItem
             ELSE /\ parse_state'.current_item # NoItem
                  /\ parse_state'.current_item.description =
                         IF parse_state.current_item.description = <<>>
                         THEN BulletText
                         ELSE parse_state.current_item.description
                                  \o <<" ">> \o BulletText
                  /\ ("title" \in DOMAIN parse_state'.current_item
                          <=> "title" \in DOMAIN parse_state.current_item)
       ]_vars

\* C30: in TECHNOLOGY and RESEARCH every bullet line, whether an item is
\* open or not, finalizes the open item, if any, and starts a new item that
\* has a description and no title; when no subcategory is active one is
\* assigned from the bullet's text.
C30_BulletStartsItem ==
    [][(CategorizedBulletLine /\ parse_name \in {"TECHNOLOGY", "RESEARCH"}) =>
          /\ OpenItemFinalized
          /\ parse_state'.current_item =
                 [description |-> SubLinks(BulletText),
                  reference_link |-> extract_link_from_text(BulletText)]
          /\ parse_state'.current_subcategory =
                 IF parse_state.current_subcategory = "None"
                 THEN detect_subcategory(BulletText, parse_name)
                 ELSE parse_state.current_subcategory
          /\ parse_state'.i = parse_state.i + 1
       ]_vars

-----------------------------------------------------------------------------
(* Links, the classifier and the normalizer: properties *)

\* An item is open and its reference_link is a URL.
LinkSet ==
    /\ AtLine
    /\ parse_state.current_item # NoItem
    /\ Truthy(parse_state.current_item.reference_link)

\* The step leaves the emitted lists as they are and an item stays open.
ItemKept ==
    /\ parse_state'.current_item # NoItem
    /\ IF parse_name \in CategorizedSections
       THEN parse_state'.result = parse_state.result
       ELSE parse_state'.items = parse_state.items

\* The step appends the open item, as it is, to an emitted list.
ItemEmitted ==
    IF parse_name \in CategorizedSections
    THEN \E name \in DOMAIN parse_state.result :
             /\ parse_state'.result[name] =
                    Append(parse_state.result[name], parse_state.current_item)
             /\ \A other \in DOMAIN parse_state.result \ {name} :
                    parse_state'.result[other] = parse_state.result[other]
    ELSE parse_state'.items = Append(parse_state.items, parse_state.current_item)

\* 'http://b'
HttpB == <<"h","t","t","p",":","/","/","b">>

\* 'http://t'
HttpT == <<"h","t","t","p",":","/","/","t">>

\* C31: first link wins. Once the open item's reference_link is a URL, every
\* line processed afterwards either leaves the item open with the same
\* reference_link or emits the item as it is; no line replaces the link, in
\* PRODUCTS and in every categorized section.
C31_FirstLinkWins ==
    [][LinkSet =>
          \/ /\ ItemKept
             /\ parse_state'.current_item.reference_link =
                    parse_state.current_item.reference_link
          \/ ItemEmitted
       ]_vars

\* A line with another link has been joined to an item that had its link:
\* in PRODUCTS 'See [here](https://x.com) for details' after 'More
\* [info](http://b)', and in TECHNOLOGY the same line after
\* '### Tool [T](http://t)'.
C31_Witness ==
    /\ pc = "lines"
    /\ parse_state.i = Len(parse_lines) + 1
    /\ parse_state.current_item # NoItem
    /\ \/ /\ parse_name = "PRODUCTS"
          /\ parse_lines = <<LineWidget, LineDashes12, LineMoreInfo, LineSeeHere>>
          /\ parse_state.current_item.reference_link = HttpB
          /\ parse_state.current_item.description =
                 JoinSpace(LineMoreInfo, LineSeeHere)
       \/ /\ parse_name = "TECHNOLOGY"
          /\ parse_lines = <<LineTool, LineSeeHere>>
          /\ parse_state.current_item.reference_link = HttpT
          /\ parse_state.current_item.description = LineSeeHere

\* The text handed to the classifier contains, whatever its case, one of the
\* keywords of this subcategory.
HasKeyword(name) ==
    \E j \in 1..Len(Keywords(name)) :
        Contains(Lower(classify_text), Keywords(name)[j])

\* The place of a subcategory in the table of its section.
TablePlace(name) ==
    CHOOSE j \in 1..Len(Subcategories(classify_section)) :
        Subcategories(classify_section)[j] = name

\* C32: detect_subcategory returns the first subcategory, in the order of the
\* section's table, one of whose keywords occurs in the text whatever its
\* case; when no keyword of the section occurs it returns the section's
\* default, 'Company Updates' for BUSINESS, 'Developer Tools & Demos' for
\* TECHNOLOGY and 'Notable Research' for RESEARCH. What it returns is always
\* a subcategory of the section.
C32_FirstKeywordMatchOrDefault ==
    pc = "classified" =>
        /\ classify_result \in SubcategorySet(classify_section)
        /\ IF \E name \in SubcategorySet(classify_section) : HasKeyword(name)
           THEN /\ HasKeyword(classify_result)
                /\ \A name \in SubcategorySet(classify_section) :
                       TablePlace(name) < TablePlace(classify_result)
                           => ~HasKeyword(name)
           ELSE classify_result =
                    (CASE classify_section = "BUSINESS" -> "Company Updates"
                       [] classify_section = "TECHNOLOGY" ->
                              "Developer Tools & Demos"
                       [] classify_section = "RESEARCH" -> "Notable Research")

\* 'CEO Raised' in BUSINESS has been classified: the keyword of the first
\* subcategory of the table wins over the keyword that comes first in the
\* text, and 'CEO' matches the keyword 'ceo'.
C32_Witness ==
    /\ pc = "classified"
    /\ classify_section = "BUSINESS"
    /\ classify_text = JoinWords(<<WordCeo, WordRaised>>)
    /\ classify_result = "Funding & Investment"

\* The raw items of a list that the normalizer keeps, in their order.
Kept(items) == SelectSeq(items, HasContent)

\* The raw items a call has emitted and what the normalizer returned for
\* each: the pairs <<raw item, output item>> of a call that has returned.
OutputPairs ==
    IF parse_name \in CategorizedSections
    THEN UNION {{<<Kept(parse_state.result[name])[k], parse_result[name][k]>> :
                    k \in 1..Len(parse_result[name])} :
                name \in DOMAIN parse_result}
    ELSE {<<Kept(FlushSimple(parse_state))[k], parse_result[k]>> :
             k \in 1..Len(parse_result)}

\* The text has no inline link '[text](url)'.
NoMarkup(text) == extract_link_from_text(text) = None

\* The target of the first inline link of the raw item's title or, when the
\* title has none, of its description; None when neither has one.
FirstTarget(raw) ==
    IF ~NoMarkup(GetTitle(raw)) THEN extract_link_from_text(GetTitle(raw))
    ELSE extract_link_from_text(raw.description)

\* C33: after normalization no output item has inline link markup in its
\* title or in its description, and an item that was emitted without a
\* reference_link and with a link in its title or description has the first
\* link's target as reference_link.
C33_NoMarkupAfterNormalization ==
    pc = "returned" =>
        \A pair \in OutputPairs :
            /\ NoMarkup(pair[2].description)
            /\ NoMarkup(GetTitle(pair[2]))
            /\ (~Truthy(pair[1].reference_link) /\ FirstTarget(pair[1]) # None)
                   => /\ "reference_link" \in DOMAIN pair[2]
                      /\ pair[2].reference_link = FirstTarget(pair[1])

\* The lists a call has emitted and what the normalizer returned for each:
\* the pairs <<raw items, output items>> of a call that has returned.
OutputLists ==
    IF parse_name \in CategorizedSections
    THEN {<<parse_state.result[name], parse_result[name]>> :
             name \in DOMAIN parse_result}
    ELSE {<<FlushSimple(parse_state), parse_result>>}

\* The raw item has an empty title, or none, and a description that is empty
\* or blank.
BothEmpty(raw) == GetTitle(raw) = <<>> /\ Strip(raw.description) = <<>>

\* The raw item has a title or a description.
NotBothEmpty(raw) == ~BothEmpty(raw)

\* What the claim has the normalizer make of a raw item that is not dropped.
TitleMovedOrKept(raw, out) ==
    IF Strip(raw.description) = <<>>
    THEN /\ out.description = raw.title
         /\ "title" \notin DOMAIN out
    ELSE /\ out.description = SubLinks(Strip(raw.description))
         /\ IF GetTitle(raw) = <<>>
            THEN "title" \notin DOMAIN out
            ELSE "title" \in DOMAIN out /\ out.title = raw.title

\* C34: the normalizer drops a raw item exactly when its title and its
\* description are both empty; of an item with an empty description and a
\* title it returns the title as description and no title; of every other
\* item it returns the title and the description in their own fields. The
\* items returned are in the order of the raw items.
C34_DroppedIffBothEmpty ==
    pc = "returned" =>
        \A lists \in OutputLists :
            LET survivors == SelectSeq(lists[1], NotBothEmpty)
            IN  /\ Len(lists[2]) = Len(survivors)
                /\ \A k \in 1..Len(survivors) :
                       TitleMovedOrKept(survivors[k], lists[2][k])

\* 'Tool T'
ToolT == <<"T","o","o","l"," ","T">>

\* The TECHNOLOGY text '###', '### Tool [T](http://t)' has returned: the
\* first line's item, with no title and no description, was dropped, and the
\* second one's title is returned as its description.
C34_Witness ==
    /\ Returned("TECHNOLOGY", <<LineHashes, LineTool>>)
    /\ Len(parse_state.result["Developer Tools & Demos"]) = 2
    /\ BothEmpty(parse_state.result["Developer Tools & Demos"][1])
    /\ Len(parse_result["Developer Tools & Demos"]) = 1
    /\ parse_result["Developer Tools & Demos"][1].description = ToolT
    /\ "title" \notin DOMAIN parse_result["Developer Tools & Demos"][1]

-----------------------------------------------------------------------------
(* Items and their lists: properties *)

\* A line of a categorized section is being parsed while an item is open.
ItemOpen ==
    /\ AtLine
    /\ parse_name \in CategorizedSections
    /\ parse_state.current_item # NoItem

\* C35: in the categorized sections an item is emitted into the subcategory
\* that was current when it was opened: while an item is open no line, be it
\* a subcategory header, a redirect or a 'paper of the day' line, changes
\* current_subcategory, and a line that emits the item appends it to the
\* list of current_subcategory.
C35_EmittedWhereOpened ==
    [][ItemOpen =>
          /\ parse_state'.result = parse_state.result =>
                 parse_state'.current_subcategory =
                     parse_state.current_subcategory
          /\ parse_state'.result # parse_state.result =>
                 /\ parse_state.current_subcategory # "None"
                 /\ parse_state'.result =
                        [parse_state.result EXCEPT
                            ![parse_state.current_subcategory] =
                                Append(@, parse_state.current_item)]
                 /\ parse_state'.current_subcategory =
                        parse_state.current_subcategory
       ]_vars

\* A call is in its loop, or at its end, with an open item.
HoldsItem == pc = "lines" /\ parse_state.current_item # NoItem

\* The second item is the first one, as it was or with more description and
\* possibly the link it lacked.
Continues(old, new) ==
    /\ new # NoItem
    /\ DOMAIN new = DOMAIN old
    /\ GetTitle(new) = GetTitle(old)
    /\ Len(new.description) >= Len(old.description)
    /\ SubSeq(new.description, 1, Len(old.description)) = old.description
    /\ Truthy(old.reference_link) => new.reference_link = old.reference_link

\* The step neither emits the open item nor drops it.
StaysOpen ==
    /\ Continues(parse_state.current_item, parse_state'.current_item)
    /\ IF parse_name \in CategorizedSections
       THEN parse_state'.result = parse_state.result
       ELSE parse_state'.items = parse_state.items

\* The step appends the open item once, to the list of its subcategory or,
\* in a simple section, to the items; at the end of a simple section the
\* items with the open item are what is normalized.
EmittedOnce ==
    IF parse_name \in CategorizedSections
    THEN /\ parse_state.current_subcategory # "None"
         /\ parse_state'.result =
                [parse_state.result EXCEPT
                    ![parse_state.current_subcategory] =
                        Append(@, parse_state.current_item)]
    ELSE IF pc' = "returned"
    THEN parse_result' =
             clean_items(Append(parse_state.items, parse_state.current_item))
    ELSE parse_state'.items =
             Append(parse_state.items, parse_state.current_item)

\* C36: in both parser modes an item that is open has, in a categorized
\* section, a current_subcategory, and every step taken while it is open
\* either leaves it open and out of every list or appends it exactly once
\* to an emitted list; the step at the end of input appends it. No opened
\* item is lost and none is emitted twice.
C36_EmittedExactlyOnce ==
    [][HoldsItem =>
          /\ parse_name \in CategorizedSections =>
                 parse_state.current_subcategory # "None"
          /\ IF parse_state.i > Len(parse_lines)
             THEN EmittedOnce
             ELSE (StaysOpen /\ ~EmittedOnce) \/ (EmittedOnce /\ ~StaysOpen)
       ]_vars

\* Two items have been returned of which the first was emitted when the
\* second was opened and the second at the end of input: two titles over
\* dashes in PRODUCTS, an item header and a bullet in TECHNOLOGY.
C36_Witness ==
    \/ /\ Returned("PRODUCTS",
                   <<LineWidget, LineDashes12, LineWidget, LineDashes12>>)
       /\ Len(parse_result) = 2
    \/ /\ Returned("TECHNOLOGY", <<LineTool, LineBulletDemo>>)
       /\ Len(parse_result["Developer Tools & Demos"]) = 2

-----------------------------------------------------------------------------
(* Termination and the shape of the result: properties *)

\* C37: for every section text the simple and the categorized parser
\* terminate: every iteration of their loops moves the line index forward by
\* 1 or by 2, whatever the branch taken, so the iterations that have run are
\* fewer than the index and never more than the lines of the text.
C37_ParsersTerminate ==
    [][AtLine =>
          /\ parse_state'.i \in {parse_state.i + 1, parse_state.i + 2}
          /\ parse_iterations' = parse_iterations + 1
          /\ parse_iterations' < parse_state'.i
          /\ parse_iterations' <= Len(parse_lines)
       ]_vars

\* Calls have returned after fewer iterations than their text has lines, a
\* title and its dashes being read in one iteration: a simple section of
\* three lines and a categorized one of four.
C37_Witness ==
    \/ /\ Returned("PRODUCTS", <<LineWidget, LineDashes12, LineSeeHere>>)
       /\ parse_iterations = 2
    \/ /\ Returned("BUSINESS",
                   <<LineFundingUpdate, LineDashes12, LineFundingUpdate,
                     LineDashes12>>)
       /\ parse_iterations = 2

\* C38: in BUSINESS, TECHNOLOGY and RESEARCH every value of the mapping the
\* categorized parser builds is a list at every point of parsing: no
\* subcategory's list has been replaced by a single item, the branches that
\* would do so for 'Paper of the Week' being never taken with an open item,
\* and every subcategory of the section has its list.
C38_ValuesAreLists ==
    (parse_name \in CategorizedSections /\ pc \in {"lines", "returned"}) =>
        /\ parse_state.single = {}
        /\ DOMAIN parse_state.result = SubcategorySet(parse_name)
        /\ \A name \in SubcategorySet(parse_name) :
               DOMAIN parse_state.result[name] =
                   1..Len(parse_state.result[name])

\* A RESEARCH text has returned in which a bullet line and an item header
\* came while a paper was open under 'Paper of the Week': both lines were
\* joined to the paper's description, and the paper is the one item of the
\* list.
C38_Witness ==
    /\ Returned("RESEARCH",
                <<LinePaperOfTheDay, LineGreatPaper, LineBulletModelX,
                  LineSurvey>>)
    /\ Len(parse_state.result["Paper of the Week"]) = 1
    /\ parse_state.result["Paper of the Week"][1].description =
           JoinSpace(LineBulletModelX, LineSurvey)

-----------------------------------------------------------------------------
(* Sections named more than once: properties *)

\* Line j of the document comes before the terminal marker, if there is one.
BeforeMarker(j) == FirstMarker = 0 \/ j < FirstMarker

\* The last section-name line before line j; 0 when there is none.
LastHeaderBefore(j) ==
    IF \E h \in 1..(j - 1) : IsSectionHeader(split_lines[h])
    THEN CHOOSE h \in 1..(j - 1) :
             /\ IsSectionHeader(split_lines[h])
             /\ \A k \in (h + 1)..(j - 1) : ~IsSectionHeader(split_lines[k])
    ELSE 0

\* Line j is a content line of a section: it follows a section-name line,
\* comes before the terminal marker, and is neither blank, nor a
\* section-name line, nor a line of dashes.
SectionContentLine(j) ==
    /\ BeforeMarker(j)
    /\ LastHeaderBefore(j) > 0
    /\ ~IsSectionHeader(split_lines[j])
    /\ ~IsTerminalMarker(split_lines[j])
    /\ ~IsBlank(split_lines[j])
    /\ ~AllDashes(split_lines[j])

\* The lines of a text.
LinesOf(text) == {text[k] : k \in 1..Len(text)}

\* C39: when the splitter has returned, the text of each section holds the
\* content lines of every occurrence of the section in the document, also
\* when the section is named more than once: no content line that followed
\* a section-name line, before the terminal marker, is lost.
C39_EveryOccurrenceKept ==
    pc = "split_done" =>
        \A j \in 1..Len(split_lines) :
            SectionContentLine(j) =>
                split_lines[j] \in
                    LinesOf(split_state.sections[
                        HeaderSection(split_lines[LastHeaderBefore(j)])])

-----------------------------------------------------------------------------
(* Standalone subcategory names in BUSINESS: properties *)

\* The subcategory display names the claim lists.
DisplayNames == {
    \* 'M&A'
    <<"M","&","A">>,
    \* 'Market Analysis'
    <<"M","a","r","k","e","t"," ","A","n","a","l","y","s","i","s">>,
    \* 'Company Updates'
    <<"C","o","m","p","a","n","y"," ","U","p","d","a","t","e","s">>,
    \* 'Funding & Investment'
    <<"F","u","n","d","i","n","g"," ","&"," ","I","n","v","e","s","t","m","e","n","t">>,
    \* 'Regulatory Developments'
    <<"R","e","g","u","l","a","t","o","r","y"," ","D","e","v","e","l","o","p","m","e","n","t","s">>,
    \* 'Market Trends'
    <<"M","a","r","k","e","t"," ","T","r","e","n","d","s">> }

\* A BUSINESS line is being parsed that is exactly one of the display names
\* and has no dash-only line under it.
StandaloneName ==
    /\ AtCategorizedLine
    /\ parse_name = "BUSINESS"
    /\ CurrentLine \in DisplayNames
    /\ ~Underlined

\* C40: in BUSINESS a standalone line that is exactly a known subcategory
\* display name, with no dash underline, is discarded: it joins no item's
\* description, opens no item, emits none and leaves current_subcategory as
\* it is.
C40_StandaloneNameDiscarded ==
    [][StandaloneName =>
          /\ NoItemTouched
          /\ parse_state'.current_subcategory = parse_state.current_subcategory
          /\ parse_state'.i = parse_state.i + 1
       ]_vars

\* 'raised $5M'
RaisedFiveM == <<"r","a","i","s","e","d"," ","$","5","M">>

\* The line 'Market Analysis' has been read while the item of '• raised
\* $5M' was open under 'Funding & Investment', and the item and the
\* subcategory are as they were.
C40_Witness ==
    /\ pc = "lines"
    /\ parse_name = "BUSINESS"
    /\ parse_state.i = 3
    /\ SubSeq(parse_lines, 1, 2) = <<LineBulletRaised, LineMarketAnalysis>>
    /\ parse_state.current_item # NoItem
    /\ parse_state.current_item.description = RaisedFiveM
    /\ parse_state.current_subcategory = "Funding & Investment"

====
